---- MODULE Spec2Model ----
(***************************************************************************)
(* Model of the retrieval-augmented answering pipeline:                    *)
(*   lib/embeddings.ts  (src/unnamed/part_005)  generateEmbedding,         *)
(*                                              batchGenerateEmbeddings    *)
(*   lib/rag.ts         (src/lib/rag.ts)        queryKnowledgeBase,        *)
(*                                              queryKnowledgeBaseStream   *)
(* Three specifications share the module: SpecEmbed (one generateEmbedding *)
(* call), SpecRag (one orchestrated query, which runs generateEmbedding    *)
(* through embedQuery) and SpecBatch (one batchGenerateEmbeddings call).   *)
(***************************************************************************)
EXTENDS Integers, Sequences, FiniteSets, TLC

(***************************************************************************)
(* Bounds of the model.                                                    *)
(***************************************************************************)
MaxTextLen == 2

MaxHistory == 7

MaxFragments == 2

MaxTexts == 3

MaxBatchSize == 2

MaxConcurrency == 2

MaxCreateCalls == 3

MaxLatencyMs == 1000

MaxVectors == 3

MaxUpsertBatch == 2

MaxUploads == 2
MaxCallers == 2

MaxTickMs == 1

MaxChatHistory == 1

MaxChatMessageLen == 1

MaxSentences == 3

MaxChunkTokens == 4

MaxOverlapTokens == 2

MaxSummarizerSentences == 3

MaxRateLimit == 2

MaxClockSteps == 3

MaxChatRequests == 4

MaxTruncateLen == 15

MaxTruncateTokens == 4

(***************************************************************************)
(* Program constants.                                                      *)
(***************************************************************************)
DefaultRetries == 3

BackoffBaseMs == 1000

\* waitForIndexReady: maxWaitMs and the setTimeout delay
MaxWaitMs == 60000

PollIntervalMs == 2000

\* the batchSize processArticles passes to upsertVectors
UploadBatchSize == 100

PassThroughTokens == 6000

TwoStageTokens == 20000

StageChunkTokens == 6000

StageOverlapTokens == 200

ChunkSummaryTokens == 500

FallbackTokens == 6000

DefaultMaxOutputTokens == 2000

DefaultDocumentTokens == 10000

DefaultMaxRequests == 100

RateLimitWindowMs == 60000

MaxMessageChars == 2000

VARIABLES
  apiKeySet,    \* process.env.OPENAI_API_KEY is set
  ePc,          \* position of the generateEmbedding call
  eText,        \* its text argument
  eAttempt,     \* the loop variable attempt
  eLastError,   \* lastError
  eLog,         \* history: provider calls issued and backoff waits started
  eOutcomes,    \* history: the provider's outcome of each call, in order
  eResult       \* what the call returned or threw

embVars == <<apiKeySet, ePc, eText, eAttempt, eLastError, eLog, eOutcomes, eResult>>

VARIABLES
  rFn,          \* which orchestrator function runs: "queryKnowledgeBase" or "queryKnowledgeBaseStream"
  rPc,          \* stage of the query
  rQuery,       \* query
  rHistory,     \* options.conversationHistory
  rQueryVector, \* the vector handed to queryVectors
  rRetrieval,   \* outcome of queryVectors
  rCitations,   \* citations
  rMessages,    \* messages sent to the generative model
  rGeneration,  \* history: how the generative model call went ("none", "ok", "error")
  rStream,      \* the ReadableStream handed to the caller
  rEmitted,     \* history: fragments the generative model has emitted
  rReturn,      \* what the function returned or threw
  rCalls,       \* history: number of embedQuery, queryVectors and chat.completions.create calls
  rStages       \* history: stages entered, in order

ragVars == <<rFn, rPc, rQuery, rHistory, rQueryVector, rRetrieval, rCitations, rMessages,
             rGeneration, rStream, rEmitted, rReturn, rCalls, rStages>>

VARIABLES
  bPc,          \* position of the batchGenerateEmbeddings call
  bTexts,       \* texts
  bBatchSize,   \* options.batchSize
  bConcurrency, \* options.concurrency
  bValid,       \* validTexts
  bBatches,     \* batches
  bI,           \* the group loop variable i
  bTasks,       \* batchPromises of the current group
  bAll,         \* allEmbeddings
  bCompleted,   \* completed
  bProgress,    \* history: arguments of the onProgress calls
  bCalled,      \* history: inputs of the provider calls issued
  bSettled,     \* history: batch numbers in the order their batch call settled
  bFellBack,    \* history: batch numbers whose batch call failed
  bResult       \* what the call returned or threw

batVars == <<bPc, bTexts, bBatchSize, bConcurrency, bValid, bBatches, bI, bTasks, bAll,
             bCompleted, bProgress, bCalled, bSettled, bFellBack, bResult>>

VARIABLES
  pineconeKeySet, \* process.env.PINECONE_API_KEY is set
  ixService,      \* the vector service's state of the configured index
  ixPc,           \* position of the createIndex call
  ixElapsed,      \* Date.now() - startTime, in ms
  ixPolls,        \* history: describeIndex calls this createIndex call has issued
  ixPollStart,    \* history: Date.now() - startTime when the last one was issued
  ixSleeps,       \* history: setTimeout waits this call has completed
  ixReported,     \* history: what the last describeIndex call answered
  ixExisted,      \* history: the index existed at the service when this call began
  ixRequested,    \* history: create requests this call has issued
  ixCreates,      \* history: create requests all calls have issued
  ixCalls,        \* history: createIndex calls begun
  ixResult        \* what the call returned or threw

ixVars == <<pineconeKeySet, ixService, ixPc, ixElapsed, ixPolls, ixPollStart, ixSleeps,
            ixReported, ixExisted, ixRequested, ixCreates, ixCalls, ixResult>>

VARIABLES
  uPc,          \* position of the upsertVectors call
  uVectors,     \* vectors
  uBatchSize,   \* options.batchSize
  uI,           \* the loop variable i
  uCompleted,   \* completed
  uStore,       \* the records the index holds
  uStoreBefore, \* history: the records it held when the call began
  uSent,        \* history: the batches handed to index.upsert, in order
  uOutcomes,    \* history: the error of each settled index.upsert (NoError when it resolved)
  uProgress,    \* history: arguments of the onProgress calls
  uResult       \* what the call returned or threw

upVars == <<uPc, uVectors, uBatchSize, uI, uCompleted, uStore, uStoreBefore, uSent, uOutcomes,
            uProgress, uResult>>

VARIABLES
  gPc,          \* position of the POST /api/ingest/upload handler
  gUploads,     \* history: requests received
  gNow,         \* Date.now(), in ms
  gFile,        \* the uploaded file
  gArticles,    \* articles
  gChunks,      \* chunkMetadata, each entry with its text of allChunks
  gEmbeddings,  \* how `await batchGenerateEmbeddings(...)` settled, and `embeddings`
  gEver,        \* history: id and origin of every record written to the index
  gLog          \* history: one entry per answered request

gVars == <<gPc, gUploads, gNow, gFile, gArticles, gChunks, gEmbeddings, gEver, gLog>>

VARIABLES
  hPc,          \* position of the POST /api/chat handler
  hResponse,    \* the Response POST /api/chat has returned
  cPc,          \* position of the client's handleSubmit
  cCitations,   \* citations, as the client parsed them from the X-Citations header
  cRead         \* history: chunks the client has read from the response body

chatVars == <<hPc, hResponse, cPc, cCitations, cRead>>

VARIABLES
  kPc,          \* position of the chunkText call
  kText,        \* its text
  kConfig,      \* its configuration
  kBuilt,       \* history: the chunks as the loop built them
  kChunks       \* the chunks it returned

kVars == <<kPc, kText, kConfig, kBuilt, kChunks>>

VARIABLES
  sFn,          \* which entry point of the summarizer was called
  sPc,          \* its position
  sText,        \* its input
  sCap,         \* its output cap
  sChunks,      \* the chunks of stage 1
  sSummaries,   \* the summaries of the chunks, <<>> while the call is in flight
  sDone,        \* the chunks whose summarizeText call has resolved
  sCalls,       \* history: the summarizeText calls issued, in order
  sResult       \* what the entry point returned or threw

sVars == <<sFn, sPc, sText, sCap, sChunks, sSummaries, sDone, sCalls, sResult>>

VARIABLES
  pNow,          \* Date.now()
  pMaxRequests,  \* maxRequests of checkRateLimit
  rateLimitMap,  \* identifier -> {count, resetTime}
  pAdmitted,     \* history: the requests the limiter admitted, with window and count
  pRequest,      \* the last request POST /api/chat received
  pStatus,       \* the status it was refused with, 0 when it was not refused
  pCalled,       \* whether it reached the call of indexExists
  pHandled       \* number of requests received

pVars == <<pNow, pMaxRequests, rateLimitMap, pAdmitted, pRequest, pStatus, pCalled, pHandled>>

VARIABLES
  tPc,    \* position of a call of truncateToTokenLimit
  tText,  \* its text
  tMax,   \* its maxTokens
  tOut    \* what it returned

tVars == <<tPc, tText, tMax, tOut>>

VARIABLES
  initService,        \* the vector service's state of the configured index
  initPc,             \* per caller: position of its createIndex call or POST /api/ingest/init
  initVia,            \* per caller: "createIndex" or "POST"
  initElapsed,        \* per caller: Date.now() - startTime of its waitForIndexReady
  initResult,         \* per caller: what its createIndex call returned or threw
  initStatus,         \* per caller: status of the answer of its POST, 0 before
  initCreates,        \* history: create requests sent to the service
  initServiceFailed   \* history: the service rejected a list, create or stats call

nVars == <<initService, initPc, initVia, initElapsed, initResult, initStatus, initCreates,
           initServiceFailed>>

vars == <<embVars, ragVars, batVars, ixVars, upVars, gVars, chatVars, kVars, sVars, pVars, tVars,
          nVars>>

\* What the actions of one component leave alone.
outsideEmbed == <<ragVars, batVars, ixVars, upVars, gVars, chatVars, kVars, sVars, pVars,
                  tVars, nVars>>

outsideRag == <<batVars, ixVars, upVars, gVars, chatVars, kVars, sVars, pVars,
                tVars, nVars>>

outsideBatch == <<ePc, eText, eAttempt, eLastError, eLog, eOutcomes, eResult, ragVars, ixVars,
                  upVars, gVars, chatVars, kVars, sVars, pVars, tVars, nVars>>

outsideIndex == <<embVars, ragVars, batVars, upVars, gVars, chatVars, kVars, sVars, pVars,
                  tVars, nVars>>

outsideUpsert == <<embVars, ragVars, batVars, ixVars, gVars, chatVars, kVars, sVars, pVars,
                   tVars, nVars>>

outsideIngest == <<embVars, ragVars, batVars, ixVars, chatVars, kVars, sVars, pVars,
                   tVars, nVars>>

outsideChat == <<embVars, batVars, ixVars, upVars, gVars, kVars, sVars, pVars,
                 tVars, nVars>>

outsideChunk == <<embVars, ragVars, batVars, ixVars, upVars, gVars, chatVars, sVars, pVars,
                  tVars, nVars>>

outsideSumm == <<embVars, ragVars, batVars, ixVars, upVars, gVars, chatVars, kVars, pVars,
                 tVars, nVars>>

outsideGate == <<embVars, ragVars, batVars, ixVars, upVars, gVars, chatVars, kVars, sVars,
                 tVars, nVars>>

outsideTrunc == <<embVars, ragVars, batVars, ixVars, upVars, gVars, chatVars, kVars, sVars,
                  pVars, nVars>>

outsideInitialize == <<embVars, ragVars, batVars, ixVars, upVars, gVars, chatVars, kVars,
                       sVars, pVars, tVars>>

(***************************************************************************)
(* Texts are sequences of characters; a space is the whitespace character. *)
(***************************************************************************)
Chars == {" ", "a"}

SeqsUpTo(S, n) == UNION {[1..k -> S] : k \in 0..n}

Texts == SeqsUpTo(Chars, MaxTextLen)

IsSpace(c) == c = " "

RECURSIVE TrimStart(_)
TrimStart(t) ==
  IF t # <<>> /\ IsSpace(Head(t)) THEN TrimStart(Tail(t)) ELSE t

RECURSIVE TrimEnd(_)
TrimEnd(t) ==
  IF t # <<>> /\ IsSpace(t[Len(t)]) THEN TrimEnd(SubSeq(t, 1, Len(t) - 1)) ELSE t

\* String.prototype.trim
Trim(t) == TrimEnd(TrimStart(t))

\* Mutant: the blank check forgets to trim.
IsBlankNoTrim(t) == t = <<>>

\* !text || text.trim().length === 0
IsBlank(t) == t = <<>> \/ Len(Trim(t)) = 0

(***************************************************************************)
(* Errors are records [type, message]; a message is a sequence of words.   *)
(***************************************************************************)
NoError == [type |-> "none", message |-> <<>>]

MkError(type, message) == [type |-> type, message |-> message]

\* error.message.includes(word)
MessageIncludes(message, word) == \E i \in 1..Len(message) : message[i] = word

EmptyTextError ==
  MkError("Error", <<"Cannot", "generate", "embedding", "for", "empty", "text">>)

MissingApiKeyError ==
  MkError("Error", <<"OPENAI_API_KEY", "is", "not", "set">>)

NoEmbeddingReturnedError ==
  MkError("Error", <<"No", "embedding", "returned", "from", "OpenAI", "API">>)

RetriesExhaustedPrefix == <<"Failed", "to", "generate", "embedding", "after", "retries:">>

RetriesExhaustedError(lastError) ==
  MkError("Error", RetriesExhaustedPrefix \o lastError.message)

(***************************************************************************)
(* The embedding provider.  One call ends in one of these outcomes.        *)
(***************************************************************************)
RateLimitError == MkError("ProviderError", <<"rate", "limit", "exceeded">>)

InvalidRequestError == MkError("ProviderError", <<"invalid", "input">>)

ProviderOutcomes ==
  { [kind |-> "ok", error |-> NoError],
    [kind |-> "empty", error |-> NoError],
    [kind |-> "error", error |-> RateLimitError],
    [kind |-> "error", error |-> InvalidRequestError] }

\* The vector the provider computes for a text.
EmbeddingOf(t) == <<"embedding", t>>

(***************************************************************************)
(* generateEmbedding(text, retries = 3)                                    *)
(***************************************************************************)
NoResult == [kind |-> "none", value |-> <<>>, error |-> NoError]

Returned(value) == [kind |-> "ok", value |-> value, error |-> NoError]

Threw(error) == [kind |-> "error", value |-> <<>>, error |-> error]

CallEvent(attempt, input) == [ev |-> "call", attempt |-> attempt, input |-> input, ms |-> 0]

WaitEvent(attempt, ms) == [ev |-> "wait", attempt |-> attempt, input |-> <<>>, ms |-> ms]

RECURSIVE Pow2(_)
Pow2(n) == IF n = 0 THEN 1 ELSE 2 * Pow2(n - 1)

\* Mutant: linear instead of exponential backoff.
BackoffDelayLinear(attempt) == (attempt + 1) * BackoffBaseMs

\* const delay = Math.pow(2, attempt) * 1000
BackoffDelay(attempt) == Pow2(attempt) * BackoffBaseMs

\* Mutant: the loop runs one attempt too many.
LoopContinuesOneMore(attempt, retries) == attempt <= retries + 1

\* for (let attempt = 0; attempt <= retries; attempt++)
LoopContinues(attempt, retries) == attempt <= retries

\* Mutant: the non-retryable check is missing.
IsNonRetryableNever(error) == FALSE

\* if (error instanceof Error && error.message.includes("invalid")) throw error
IsNonRetryable(error) == MessageIncludes(error.message, "invalid")

\* if (attempt < retries) { ...delay... }
ShouldBackoff(attempt, retries) == attempt < retries

\* What the catch block is entered with, if at all, for one provider outcome.
CaughtError(outcome) ==
  CASE outcome.kind = "ok" -> NoError
    [] outcome.kind = "empty" -> NoEmbeddingReturnedError
    [] OTHER -> outcome.error

\* Entry of the function up to the first await: the blank check, the client
\* lookup, and the first provider call.
GenerateEmbeddingEnter(text) ==
  /\ eText' = text
  /\ eAttempt' = 0
  /\ eLastError' = NoError
  /\ eOutcomes' = <<>>
  /\ IF IsBlank(text)
       THEN /\ ePc' = "thrown"
            /\ eResult' = Threw(EmptyTextError)
            /\ eLog' = <<>>
       ELSE IF ~apiKeySet
       THEN /\ ePc' = "thrown"
            /\ eResult' = Threw(MissingApiKeyError)
            /\ eLog' = <<>>
       ELSE /\ ePc' = "call"
            /\ eResult' = NoResult
            /\ eLog' = <<CallEvent(0, text)>>
  /\ UNCHANGED apiKeySet

\* The provider call of the current attempt settles: the rest of the try
\* block, the catch block, and the loop exit.
GenerateEmbeddingSettle(outcome) ==
  /\ ePc = "call"
  /\ eOutcomes' = Append(eOutcomes, outcome)
  /\ LET error == CaughtError(outcome) IN
     IF error = NoError
       THEN /\ ePc' = "returned"
            /\ eResult' = Returned(EmbeddingOf(eText))
            /\ UNCHANGED <<eAttempt, eLastError, eLog>>
       ELSE /\ eLastError' = error
            /\ IF IsNonRetryable(error)
                 THEN /\ ePc' = "thrown"
                      /\ eResult' = Threw(error)
                      /\ UNCHANGED <<eAttempt, eLog>>
                 ELSE IF ShouldBackoff(eAttempt, DefaultRetries)
                 THEN /\ ePc' = "backoff"
                      /\ eLog' = Append(eLog, WaitEvent(eAttempt, BackoffDelay(eAttempt)))
                      /\ UNCHANGED <<eAttempt, eResult>>
                 ELSE IF LoopContinues(eAttempt + 1, DefaultRetries)
                 THEN /\ ePc' = "call"
                      /\ eAttempt' = eAttempt + 1
                      /\ eLog' = Append(eLog, CallEvent(eAttempt + 1, eText))
                      /\ UNCHANGED eResult
                 ELSE /\ ePc' = "thrown"
                      /\ eAttempt' = eAttempt + 1
                      /\ eResult' = Threw(RetriesExhaustedError(error))
                      /\ UNCHANGED eLog
  /\ UNCHANGED <<apiKeySet, eText>>

\* The backoff timer fires: attempt++ and the next provider call.
GenerateEmbeddingResume ==
  /\ ePc = "backoff"
  /\ IF LoopContinues(eAttempt + 1, DefaultRetries)
       THEN /\ ePc' = "call"
            /\ eLog' = Append(eLog, CallEvent(eAttempt + 1, eText))
            /\ UNCHANGED eResult
       ELSE /\ ePc' = "thrown"
            /\ eResult' = Threw(RetriesExhaustedError(eLastError))
            /\ UNCHANGED eLog
  /\ eAttempt' = eAttempt + 1
  /\ UNCHANGED <<apiKeySet, eText, eLastError, eOutcomes>>

EmbInit ==
  /\ apiKeySet \in BOOLEAN
  /\ ePc = "idle"
  /\ eText = <<>>
  /\ eAttempt = 0
  /\ eLastError = NoError
  /\ eLog = <<>>
  /\ eOutcomes = <<>>
  /\ eResult = NoResult


(***************************************************************************)
(* The vector index and the generative model, as the orchestrator sees     *)
(* them (queryVectors, client.chat.completions.create).                    *)
(***************************************************************************)
Chunk1 == [id |-> "doc-1-chunk-0", score |-> 9, title |-> "t1", url |-> "u1", content |-> "c1"]

Chunk2 == [id |-> "doc-2-chunk-0", score |-> 7, title |-> "t2", url |-> "u2", content |-> "c2"]

\* queryVectors resolves with a list of matches, by descending score, or rejects.
QueryFailedError == MkError("Error", <<"Failed", "to", "query", "vectors:", "unavailable">>)

NoRetrieval == [kind |-> "none", matches |-> <<>>, error |-> NoError]

RetrievalOutcomes ==
  { [kind |-> "ok", matches |-> m, error |-> NoError] :
      m \in {<<>>, <<Chunk1>>, <<Chunk2>>, <<Chunk1, Chunk2>>} }
  \cup { [kind |-> "error", matches |-> <<>>, error |-> QueryFailedError] }

ModelError == MkError("ProviderError", <<"model", "overloaded">>)

\* completion.choices[0]?.message?.content of a resolved blocking completion
CompletionContents == {"", "generated answer"}

GenerationOutcomes ==
  { [kind |-> "ok", content |-> c, error |-> NoError] : c \in CompletionContents }
  \cup { [kind |-> "error", content |-> "", error |-> ModelError] }

\* chunk.choices[0]?.delta?.content of one streamed chunk
FragmentContents == {"", "tok1", "tok2"}

(***************************************************************************)
(* lib/rag.ts                                                              *)
(***************************************************************************)
HistoryLimit == 6

SystemPrompt == "You are Brett McKay's private AI assistant"

NoInfoAnswer ==
  "I couldn't find any relevant information in the archive for your question. Could you try rephrasing or asking about a different topic?"

NoInfoStreamMessage ==
  "I couldn't find any relevant information in the archive for your question."

NoResponseAnswer == "No response generated."

GenerationFailedError(error) ==
  MkError("Error", <<"Failed", "to", "generate", "response:">> \o error.message)

\* conversation histories: turn i has content i, roles alternate
MkHistory(n) ==
  [i \in 1..n |-> [role |-> IF i % 2 = 1 THEN "user" ELSE "assistant", content |-> i]]

Histories == {MkHistory(n) : n \in 0..MaxHistory}

\* retrievedChunks.map((chunk) => ({title, url, relevance: chunk.score, snippet}))
CitationOf(chunk) ==
  [title |-> chunk.title, url |-> chunk.url, relevance |-> chunk.score,
   snippet |-> <<chunk.content, "...">>]

ExtractCitations(chunks) == [i \in 1..Len(chunks) |-> CitationOf(chunks[i])]

\* Mutant: the first n turns are kept instead of the last n.
SliceFirst(s, n) == IF Len(s) <= n THEN s ELSE SubSeq(s, 1, n)

\* Array.prototype.slice(-n)
SliceLast(s, n) == IF Len(s) <= n THEN s ELSE SubSeq(s, Len(s) - n + 1, Len(s))

\* buildUserPrompt(query, retrievedContext)
BuildUserPrompt(query, chunks) ==
  [context |-> [i \in 1..Len(chunks) |->
                  [n |-> i, title |-> chunks[i].title, url |-> chunks[i].url,
                   relevance |-> chunks[i].score, content |-> chunks[i].content]],
   query |-> query]

SystemMessage == [role |-> "system", content |-> <<"system", SystemPrompt>>]

ContextMessage(query, chunks) ==
  [role |-> "user", content |-> <<"context", BuildUserPrompt(query, chunks)>>]

HistoryMessages(history) ==
  LET h == SliceLast(history, HistoryLimit) IN
  [i \in 1..Len(h) |->
     [role |-> IF h[i].role = "user" THEN "user" ELSE "assistant",
      content |-> <<"history", h[i].content>>]]

\* [systemMessage, ...historyMessages, contextMessage]
BuildMessages(query, history, chunks) ==
  <<SystemMessage>> \o HistoryMessages(history) \o <<ContextMessage(query, chunks)>>

NoReturn ==
  [kind |-> "none", answer |-> "", citations |-> <<>>, retrievedChunks |-> 0,
   model |-> "", hasStream |-> FALSE, error |-> NoError]

\* a resolved RAGResult
RagResult(answer, citations, n, model) ==
  [kind |-> "value", answer |-> answer, citations |-> citations, retrievedChunks |-> n,
   model |-> model, hasStream |-> FALSE, error |-> NoError]

\* Mutant: the stream is handed over without the citations.
StreamResultBare(citations) ==
  [kind |-> "value", answer |-> "", citations |-> <<>>, retrievedChunks |-> 0,
   model |-> "", hasStream |-> TRUE, error |-> NoError]

\* a resolved { stream, citations }; the stream itself is rStream
StreamResult(citations) ==
  [kind |-> "value", answer |-> "", citations |-> citations, retrievedChunks |-> 0,
   model |-> "", hasStream |-> TRUE, error |-> NoError]

Rejected(error) ==
  [kind |-> "throw", answer |-> "", citations |-> <<>>, retrievedChunks |-> 0,
   model |-> "", hasStream |-> FALSE, error |-> error]

NoStream == [state |-> "none", chunks |-> <<>>]

\* Mutant: a rejection of embedQuery is swallowed.
EmbedQueryAlwaysSucceeded == TRUE

\* await embedQuery(query) resolved (a rejection propagates out of the function)
EmbedQuerySucceeded == eResult.kind = "ok"

\* Mutant: a rejection of queryVectors is read as an empty result.
RetrievalNeverFailed(outcome) == FALSE

\* await queryVectors(...) rejected
RetrievalFailed(outcome) == outcome.kind = "error"

\* Mutant: the empty-retrieval check is missing.
NoMatchesNever(chunks) == FALSE

\* retrievedChunks.length === 0
NoMatches(chunks) == Len(chunks) = 0

\* Mutant: a fragment is put in front of the fragments already relayed.
RelayInFront(chunks, content) == IF content # "" THEN <<content>> \o chunks ELSE chunks

\* if (content) controller.enqueue(encoder.encode(content))
Relay(chunks, content) == IF content # "" THEN Append(chunks, content) ELSE chunks

EnterStage(stage) == rStages' = Append(rStages, stage)

CountCall(what) == rCalls' = [rCalls EXCEPT ![what] = @ + 1]

\* Steps 1: both functions start with `await embedQuery(query)`.
RagEnter(fn, query, history) ==
  /\ rPc = "idle"
  /\ ePc = "idle"
  /\ rFn' = fn
  /\ rQuery' = query
  /\ rHistory' = history
  /\ rPc' = "EMBEDDING_QUERY"
  /\ EnterStage("EMBEDDING_QUERY")
  /\ CountCall("embed")
  /\ GenerateEmbeddingEnter(query)
  /\ UNCHANGED <<rQueryVector, rRetrieval, rCitations, rGeneration, rMessages, rStream,
                 rEmitted, rReturn>>
  /\ UNCHANGED outsideRag

\* Step 2: embedQuery settled; on success queryVectors is called.
RagEmbedded(fn) ==
  /\ rFn = fn
  /\ rPc = "EMBEDDING_QUERY"
  /\ ePc \in {"returned", "thrown"}
  /\ IF EmbedQuerySucceeded
       THEN /\ rPc' = "RETRIEVING"
            /\ EnterStage("RETRIEVING")
            /\ rQueryVector' = eResult.value
            /\ CountCall("query")
            /\ UNCHANGED rReturn
       ELSE /\ rPc' = "FAILED"
            /\ EnterStage("FAILED")
            /\ rReturn' = Rejected(eResult.error)
            /\ UNCHANGED <<rQueryVector, rCalls>>
  /\ UNCHANGED <<rFn, rQuery, rHistory, rRetrieval, rCitations, rGeneration, rMessages, rStream, rEmitted>>
  /\ UNCHANGED <<embVars, outsideRag>>

(***************************************************************************)
(* queryKnowledgeBase                                                      *)
(***************************************************************************)
KbRetrieved(outcome) ==
  /\ rFn = "queryKnowledgeBase"
  /\ rPc = "RETRIEVING"
  /\ rRetrieval' = outcome
  /\ IF RetrievalFailed(outcome)
       THEN /\ rPc' = "FAILED"
            /\ EnterStage("FAILED")
            /\ rReturn' = Rejected(outcome.error)
            /\ UNCHANGED rCitations
       ELSE IF NoMatches(outcome.matches)
       THEN /\ rPc' = "DONE"
            /\ EnterStage("DONE")
            /\ rReturn' = RagResult(NoInfoAnswer, <<>>, 0, "gpt-4o")
            /\ UNCHANGED rCitations
       ELSE /\ rPc' = "ASSEMBLING_PROMPT"
            /\ EnterStage("ASSEMBLING_PROMPT")
            /\ rCitations' = ExtractCitations(outcome.matches)
            /\ UNCHANGED rReturn
  /\ UNCHANGED <<rFn, rQuery, rHistory, rQueryVector, rMessages, rGeneration, rStream, rEmitted, rCalls>>
  /\ UNCHANGED <<embVars, outsideRag>>

KbAssemble ==
  /\ rFn = "queryKnowledgeBase"
  /\ rPc = "ASSEMBLING_PROMPT"
  /\ rMessages' = BuildMessages(rQuery, rHistory, rRetrieval.matches)
  /\ rPc' = "GENERATING"
  /\ EnterStage("GENERATING")
  /\ CountCall("generate")
  /\ UNCHANGED <<rFn, rQuery, rHistory, rQueryVector, rRetrieval, rCitations, rGeneration, rStream,
                 rEmitted, rReturn>>
  /\ UNCHANGED <<embVars, outsideRag>>

KbGenerated(outcome) ==
  /\ rFn = "queryKnowledgeBase"
  /\ rPc = "GENERATING"
  /\ IF outcome.kind = "error"
       THEN /\ rPc' = "FAILED"
            /\ EnterStage("FAILED")
            /\ rReturn' = Rejected(GenerationFailedError(outcome.error))
       ELSE /\ rPc' = "DONE"
            /\ EnterStage("DONE")
            /\ rReturn' = RagResult(IF outcome.content # "" THEN outcome.content
                                                             ELSE NoResponseAnswer,
                                    rCitations, Len(rRetrieval.matches), "gpt-4o")
  /\ rGeneration' = IF outcome.kind = "error" THEN "error" ELSE "ok"
  /\ UNCHANGED <<rFn, rQuery, rHistory, rQueryVector, rRetrieval, rCitations, rMessages,
                 rStream, rEmitted, rCalls>>
  /\ UNCHANGED <<embVars, outsideRag>>

(***************************************************************************)
(* queryKnowledgeBaseStream                                                *)
(***************************************************************************)
KbsRetrieved(outcome) ==
  /\ rFn = "queryKnowledgeBaseStream"
  /\ rPc = "RETRIEVING"
  /\ rRetrieval' = outcome
  /\ IF RetrievalFailed(outcome)
       THEN /\ rPc' = "FAILED"
            /\ EnterStage("FAILED")
            /\ rReturn' = Rejected(outcome.error)
            /\ UNCHANGED <<rCitations, rStream>>
       ELSE /\ rCitations' = ExtractCitations(outcome.matches)
            /\ IF NoMatches(outcome.matches)
                 THEN /\ rPc' = "DONE"
                      /\ EnterStage("DONE")
                      /\ rStream' = [state |-> "closed", chunks |-> <<NoInfoStreamMessage>>]
                      /\ rReturn' = StreamResult(<<>>)
                 ELSE /\ rPc' = "ASSEMBLING_PROMPT"
                      /\ EnterStage("ASSEMBLING_PROMPT")
                      /\ UNCHANGED <<rReturn, rStream>>
  /\ UNCHANGED <<rFn, rQuery, rHistory, rQueryVector, rMessages, rGeneration, rEmitted, rCalls>>
  /\ UNCHANGED <<embVars, outsideRag>>

KbsAssemble ==
  /\ rFn = "queryKnowledgeBaseStream"
  /\ rPc = "ASSEMBLING_PROMPT"
  /\ rMessages' = BuildMessages(rQuery, rHistory, rRetrieval.matches)
  /\ rPc' = "GENERATING"
  /\ EnterStage("GENERATING")
  /\ CountCall("generate")
  /\ UNCHANGED <<rFn, rQuery, rHistory, rQueryVector, rRetrieval, rCitations, rGeneration, rStream,
                 rEmitted, rReturn>>
  /\ UNCHANGED <<embVars, outsideRag>>

\* await client.chat.completions.create({stream: true}) settles; on success the
\* ReadableStream is built and { stream, citations } returned.
KbsCreated(ok) ==
  /\ rFn = "queryKnowledgeBaseStream"
  /\ rPc = "GENERATING"
  /\ rReturn.kind = "none"
  /\ IF ok
       THEN /\ rStream' = [state |-> "open", chunks |-> <<>>]
            /\ rReturn' = StreamResult(rCitations)
            /\ UNCHANGED <<rPc, rStages>>
       ELSE /\ rPc' = "FAILED"
            /\ EnterStage("FAILED")
            /\ rReturn' = Rejected(ModelError)
            /\ UNCHANGED rStream
  /\ rGeneration' = IF ok THEN "ok" ELSE "error"
  /\ UNCHANGED <<rFn, rQuery, rHistory, rQueryVector, rRetrieval, rCitations, rMessages,
                 rEmitted, rCalls>>
  /\ UNCHANGED <<embVars, outsideRag>>

\* for await (const chunk of completion): one chunk arrives.  The stream has
\* no cancel handler, so after a cancellation the loop goes on; enqueue then
\* throws on the cancelled stream, and the catch block's controller.error has
\* no effect on it.
KbsChunk(content) ==
  /\ rFn = "queryKnowledgeBaseStream"
  /\ rPc = "GENERATING"
  /\ rStream.state \in {"open", "cancelled"}
  /\ Len(rEmitted) < MaxFragments
  /\ rEmitted' = Append(rEmitted, content)
  /\ IF rStream.state = "open"
       THEN /\ rStream' = [rStream EXCEPT !.chunks = Relay(@, content)]
            /\ UNCHANGED <<rPc, rStages>>
       ELSE /\ UNCHANGED rStream
            /\ IF content # ""
                 THEN /\ rPc' = "DONE"
                      /\ EnterStage("DONE")
                 ELSE UNCHANGED <<rPc, rStages>>
  /\ UNCHANGED <<rFn, rQuery, rHistory, rQueryVector, rRetrieval, rCitations, rGeneration, rMessages,
                 rReturn, rCalls>>
  /\ UNCHANGED <<embVars, outsideRag>>

\* the model's stream ends: controller.close(), which throws on a cancelled
\* stream
KbsEnd ==
  /\ rFn = "queryKnowledgeBaseStream"
  /\ rPc = "GENERATING"
  /\ rStream.state \in {"open", "cancelled"}
  /\ rStream' = IF rStream.state = "open" THEN [rStream EXCEPT !.state = "closed"] ELSE rStream
  /\ rPc' = "DONE"
  /\ EnterStage("DONE")
  /\ UNCHANGED <<rFn, rQuery, rHistory, rQueryVector, rRetrieval, rCitations, rGeneration, rMessages,
                 rEmitted, rReturn, rCalls>>
  /\ UNCHANGED <<embVars, outsideRag>>

\* the model's stream throws: controller.error(error), which has no effect
\* on a cancelled stream
KbsError ==
  /\ rFn = "queryKnowledgeBaseStream"
  /\ rPc = "GENERATING"
  /\ rStream.state \in {"open", "cancelled"}
  /\ IF rStream.state = "open"
       THEN /\ rStream' = [rStream EXCEPT !.state = "errored"]
            /\ rPc' = "FAILED"
            /\ EnterStage("FAILED")
            /\ rGeneration' = "error"
       ELSE /\ rPc' = "DONE"
            /\ EnterStage("DONE")
            /\ UNCHANGED <<rStream, rGeneration>>
  /\ UNCHANGED <<rFn, rQuery, rHistory, rQueryVector, rRetrieval, rCitations, rMessages,
                 rEmitted, rReturn, rCalls>>
  /\ UNCHANGED <<embVars, outsideRag>>

RagInit ==
  /\ rFn = "none"
  /\ rPc = "idle"
  /\ rQuery = <<>>
  /\ rHistory = <<>>
  /\ rQueryVector = <<>>
  /\ rRetrieval = NoRetrieval
  /\ rCitations = <<>>
  /\ rMessages = <<>>
  /\ rGeneration = "none"
  /\ rStream = NoStream
  /\ rEmitted = <<>>
  /\ rReturn = NoReturn
  /\ rCalls = [embed |-> 0, query |-> 0, generate |-> 0]
  /\ rStages = <<>>

(***************************************************************************)
(* POST /api/chat and the client's handleSubmit.  The request is taken     *)
(* past the rate limit and the body validation; the handler then awaits    *)
(* indexExists and queryKnowledgeBaseStream.                               *)
(***************************************************************************)
\* JSON.stringify(citations)
JsonStringify(value) == <<"json", value>>

\* encodeURIComponent(citationsHeader)
EncodeURIComponent(text) == <<"uri", text>>

NoHeader == <<>>

\* JSON.parse(decodeURIComponent(citationsHeader)), [] when the header is
\* absent or does not parse
ParseCitationsHeader(header) ==
  IF Len(header) = 2 /\ header[1] = "uri" /\ Len(header[2]) = 2 /\ header[2][1] = "json"
    THEN header[2][2]
    ELSE <<>>

\* error.message.includes("rate limit")
MessageIncludesRateLimit(message) ==
  \E i \in 1..(Len(message) - 1) : message[i] = "rate" /\ message[i + 1] = "limit"

\* the catch block of POST: status of the JSON error response
ChatErrorStatus(error) ==
  IF MessageIncludes(error.message, "OPENAI_API_KEY") THEN 500
  ELSE IF MessageIncludes(error.message, "PINECONE_API_KEY") THEN 500
  ELSE IF MessageIncludesRateLimit(error.message) THEN 429
  ELSE 500

\* process.env.NODE_ENV
NodeEnvs == {"production", "development"}

\* The JSON body of a response; `details` is the message of the caught error
\* or empty when the field is undefined.
JsonBody(error, message, action, details) ==
  [error |-> error, message |-> message, action |-> action, details |-> details]

NoJson == JsonBody("", "", "", <<>>)

\* `env` is not in the response: it is the NODE_ENV the handler read when it
\* built the response ("" when it did not read it).
NoResponse == [status |-> 0, citations |-> NoHeader, body |-> FALSE, json |-> NoJson, env |-> ""]

\* new Response(stream, {headers: {"X-Citations": ...}})
StreamResponse(citations) ==
  [status |-> 200, citations |-> EncodeURIComponent(JsonStringify(citations)), body |-> TRUE,
   json |-> NoJson, env |-> ""]

\* the 503 response of POST when indexExists() is false
IndexNotReadyJson ==
  JsonBody("Knowledge base not initialized",
           "The knowledge base index doesn't exist yet. Please run data ingestion first.",
           "POST /api/ingest/init to create the index", <<>>)

IndexNotReadyResponse ==
  [status |-> 503, citations |-> NoHeader, body |-> FALSE, json |-> IndexNotReadyJson, env |-> ""]

OpenAIConfigJson == JsonBody("Configuration error", "OpenAI API key is not configured", "", <<>>)

PineconeConfigJson == JsonBody("Configuration error", "Pinecone API key is not configured", "", <<>>)

RateLimitJson ==
  JsonBody("API rate limit", "OpenAI API rate limit reached. Please try again in a moment.",
           "", <<>>)

\* Mutant: the detail is sent in every mode.
DetailsAlways(error, env) == error.message

\* details: process.env.NODE_ENV === "development" ? error.message : undefined
Details(error, env) == IF env = "development" THEN error.message ELSE <<>>

InternalErrorJson(error, env) ==
  JsonBody("Internal server error", "Failed to process your request. Please try again.",
           "", Details(error, env))

\* the catch block of POST: body of the JSON error response
ChatErrorJson(error, env) ==
  IF MessageIncludes(error.message, "OPENAI_API_KEY") THEN OpenAIConfigJson
  ELSE IF MessageIncludes(error.message, "PINECONE_API_KEY") THEN PineconeConfigJson
  ELSE IF MessageIncludesRateLimit(error.message) THEN RateLimitJson
  ELSE InternalErrorJson(error, env)

ErrorResponse(error, env) ==
  [status |-> ChatErrorStatus(error), citations |-> NoHeader, body |-> FALSE,
   json |-> ChatErrorJson(error, env), env |-> env]

\* handleSubmit: fetch("/api/chat", {signal})
HandleSubmit ==
  /\ cPc = "idle"
  /\ rPc = "idle"
  /\ cPc' = "waiting"
  /\ UNCHANGED <<hPc, hResponse, cCitations, cRead>>

\* POST: `await queryKnowledgeBaseStream(...)` has settled.  A response whose
\* request was aborted has its body cancelled.
ChatResponds ==
  /\ cPc \in {"waiting", "aborted"}
  /\ hPc = "querying"
  /\ rFn = "queryKnowledgeBaseStream"
  /\ rReturn.kind # "none"
  /\ hPc' = "responded"
  /\ \E env \in NodeEnvs :
       hResponse' = IF rReturn.hasStream THEN StreamResponse(rReturn.citations)
                                         ELSE ErrorResponse(rReturn.error, env)
  /\ rStream' = IF cPc = "aborted" /\ rStream.state = "open"
                  THEN [rStream EXCEPT !.state = "cancelled"]
                  ELSE rStream
  /\ UNCHANGED <<cPc, cCitations, cRead>>

\* handleSubmit: `await fetch` resolved; the header is read before the body
ClientReceivesResponse ==
  /\ cPc = "waiting"
  /\ hResponse # NoResponse
  /\ IF hResponse.status = 200
       THEN /\ cCitations' = ParseCitationsHeader(hResponse.citations)
            /\ cPc' = "reading"
       ELSE /\ cPc' = "failed"
            /\ UNCHANGED cCitations
  /\ UNCHANGED <<hPc, hResponse, cRead>>

\* handleSubmit: one `await reader.read()`
ClientReads ==
  /\ cPc = "reading"
  /\ IF rStream.state = "errored"
       THEN /\ cPc' = "failed"
            /\ UNCHANGED cRead
       ELSE IF Len(cRead) < Len(rStream.chunks)
         THEN /\ cRead' = Append(cRead, rStream.chunks[Len(cRead) + 1])
              /\ UNCHANGED cPc
         ELSE /\ rStream.state = "closed"
              /\ cPc' = "done"
              /\ UNCHANGED cRead
  /\ UNCHANGED <<hPc, hResponse, cCitations>>

\* the client's request is aborted (the user navigates away): the body
\* stream of the response is cancelled
ClientCancels ==
  /\ cPc \in {"waiting", "reading"}
  /\ cPc' = "aborted"
  /\ rStream' = IF hResponse.body /\ rStream.state = "open"
                  THEN [rStream EXCEPT !.state = "cancelled"]
                  ELSE rStream
  /\ UNCHANGED <<hPc, hResponse, cCitations, cRead>>

ChatInit ==
  /\ hPc = "idle"
  /\ hResponse = NoResponse
  /\ cPc = "idle"
  /\ cCitations = <<>>
  /\ cRead = <<>>

(***************************************************************************)
(* batchGenerateEmbeddings(texts, {batchSize, concurrency, onProgress})    *)
(***************************************************************************)
BatchTexts == {<<>>, <<" ">>, <<"a">>, <<" ", "a">>}

Min(a, b) == IF a <= b THEN a ELSE b

\* text && text.trim().length > 0
IsValidText(t) == t # <<>> /\ Len(Trim(t)) > 0

\* validTexts: the non-blank texts, each with its (0-based) index in texts
ValidTexts(texts) ==
  SelectSeq([i \in 1..Len(texts) |-> [index |-> i - 1, text |-> texts[i]]],
            LAMBDA item : IsValidText(item.text))

\* for (let i = 0; i < validTexts.length; i += batchSize) batches.push(validTexts.slice(i, i + batchSize))
SplitBatches(valid, batchSize) ==
  [b \in 1..((Len(valid) + batchSize - 1) \div batchSize) |->
     SubSeq(valid, (b - 1) * batchSize + 1, Min(b * batchSize, Len(valid)))]

\* Mutant: the whole remainder of the batches is started as one group.
BatchGroupUnbounded(batches, i, concurrency) == SubSeq(batches, i + 1, Len(batches))

\* batches.slice(i, i + concurrency)
BatchGroup(batches, i, concurrency) == SubSeq(batches, i + 1, Min(i + concurrency, Len(batches)))

\* batch.map((item) => item.text)
BatchInput(batch) == [j \in 1..Len(batch) |-> batch[j].text]

\* response.data of a resolved batch call: one embedding per input, in input order
BatchResponse(input) == [j \in 1..Len(input) |-> EmbeddingOf(input[j])]

\* batch.map((item, idx) => ({index: item.index, embedding: response.data[idx].embedding}))
TagResponse(batch, data) ==
  [j \in 1..Len(batch) |-> [index |-> batch[j].index, embedding |-> data[j]]]

\* What generateEmbedding(text) can settle with (the outcomes of SpecEmbed).
GenerateEmbeddingResults(text) ==
  IF IsBlank(text) THEN {Threw(EmptyTextError)}
  ELSE IF ~apiKeySet THEN {Threw(MissingApiKeyError)}
  ELSE { Returned(EmbeddingOf(text)),
         Threw(InvalidRequestError),
         Threw(RetriesExhaustedError(RateLimitError)),
         Threw(RetriesExhaustedError(NoEmbeddingReturnedError)) }

RECURSIVE InsertByIndex(_, _)
InsertByIndex(sorted, e) ==
  IF sorted = <<>> THEN <<e>>
  ELSE IF e.index < Head(sorted).index THEN <<e>> \o sorted
  ELSE <<Head(sorted)>> \o InsertByIndex(Tail(sorted), e)

\* Mutant: the comparator is reversed (b.index - a.index).
SortByIndexDescending(s) ==
  LET n == Len(s)
      asc == CHOOSE p \in [1..n -> 1..n] :
               /\ \A a, b \in 1..n : a # b => p[a] # p[b]
               /\ \A a, b \in 1..n : a < b => s[p[a]].index <= s[p[b]].index
  IN [k \in 1..n |-> s[asc[n + 1 - k]]]

RECURSIVE SortByIndex(_)
\* allEmbeddings.sort((a, b) => a.index - b.index)
SortByIndex(s) ==
  IF s = <<>> THEN <<>>
  ELSE InsertByIndex(SortByIndex(SubSeq(s, 1, Len(s) - 1)), s[Len(s)])

\* allEmbeddings.map((item) => item.embedding)
ExtractEmbeddings(s) == [k \in 1..Len(s) |-> s[k].embedding]

RECURSIVE Flatten(_)
\* batchResults.forEach((results) => allEmbeddings.push(...results))
Flatten(ss) == IF ss = <<>> THEN <<>> ELSE Head(ss) \o Flatten(Tail(ss))

\* batchGroup.reduce((sum, batch) => sum + batch.length, 0)
RECURSIVE SumLen(_)
SumLen(ss) == IF ss = <<>> THEN 0 ELSE Len(Head(ss)) + SumLen(Tail(ss))

\* One batch promise at its first await.  With no API key getOpenAIClient
\* throws inside the try block, so the catch block runs at once.
StartTask(batch, number) ==
  [number |-> number,
   batch |-> batch,
   state |-> IF apiKeySet THEN "calling" ELSE "fallback",
   items |-> [j \in 1..Len(batch) |-> NoResult],
   results |-> <<>>]

StartGroup(batches, i, concurrency) ==
  LET group == BatchGroup(batches, i, concurrency) IN
  [k \in 1..Len(group) |-> StartTask(group[k], i + k)]

\* inputs of the provider calls a group issues when it starts
GroupCalls(tasks) ==
  {BatchInput(tasks[k].batch) : k \in {k \in 1..Len(tasks) : tasks[k].state = "calling"}}

\* the first calls of the individual generateEmbedding calls of a fallback
FallbackCalls(batch) ==
  {<<batch[j].text>> : j \in {j \in 1..Len(batch) : GenerateEmbeddingResults(batch[j].text)
                                                  # {Threw(MissingApiKeyError)}}}

\* The tail of the function: sort by original index and extract.
FinishBatch(all) == Returned(ExtractEmbeddings(SortByIndex(all)))

BatchGenerateEmbeddings(texts, batchSize, concurrency) ==
  /\ bPc = "idle"
  /\ bTexts' = texts
  /\ bBatchSize' = batchSize
  /\ bConcurrency' = concurrency
  /\ bI' = 0
  /\ bAll' = <<>>
  /\ bCompleted' = 0
  /\ UNCHANGED <<bProgress, bSettled, bFellBack>>
  /\ IF Len(texts) = 0
       THEN /\ bPc' = "done"
            /\ bResult' = Returned(<<>>)
            /\ UNCHANGED <<bValid, bBatches, bTasks, bCalled>>
       ELSE LET valid == ValidTexts(texts)
                batches == SplitBatches(valid, batchSize)
            IN /\ bValid' = valid
               /\ bBatches' = batches
               /\ IF Len(batches) = 0
                    THEN /\ bPc' = "done"
                         /\ bResult' = FinishBatch(<<>>)
                         /\ UNCHANGED <<bTasks, bCalled>>
                    ELSE /\ bPc' = "group"
                         /\ bTasks' = StartGroup(batches, 0, concurrency)
                         /\ bCalled' = bCalled \cup GroupCalls(bTasks')
                         /\ UNCHANGED bResult
  /\ UNCHANGED apiKeySet

\* The batch call of task k settles.
BatchCallSettles(k, ok) ==
  /\ bPc = "group"
  /\ k \in 1..Len(bTasks)
  /\ bTasks[k].state = "calling"
  /\ bSettled' = Append(bSettled, bTasks[k].number)
  /\ IF ok
       THEN /\ bTasks' = [bTasks EXCEPT
                 ![k].state = "resolved",
                 ![k].results = TagResponse(bTasks[k].batch,
                                            BatchResponse(BatchInput(bTasks[k].batch)))]
            /\ UNCHANGED <<bFellBack, bCalled>>
       ELSE /\ bTasks' = [bTasks EXCEPT ![k].state = "fallback"]
            /\ bFellBack' = bFellBack \cup {bTasks[k].number}
            /\ bCalled' = bCalled \cup FallbackCalls(bTasks[k].batch)
  /\ UNCHANGED <<apiKeySet, bPc, bTexts, bBatchSize, bConcurrency, bValid, bBatches, bI, bAll,
                 bCompleted, bProgress, bResult>>

\* generateEmbedding(item.text) of item j of task k settles.  A rejection
\* rejects Promise.all of the batch, then Promise.all of the group, and the
\* function throws.
FallbackItemSettles(k, j) ==
  /\ bPc = "group"
  /\ k \in 1..Len(bTasks)
  /\ bTasks[k].state = "fallback"
  /\ j \in 1..Len(bTasks[k].batch)
  /\ bTasks[k].items[j].kind = "none"
  /\ \E result \in GenerateEmbeddingResults(bTasks[k].batch[j].text) :
     LET items == [bTasks[k].items EXCEPT ![j] = result]
         allDone == \A m \in 1..Len(items) : items[m].kind = "ok"
     IN IF result.kind = "error"
          THEN /\ bTasks' = [bTasks EXCEPT ![k].items = items, ![k].state = "rejected"]
               /\ bPc' = "failed"
               /\ bResult' = result
          ELSE /\ bTasks' = [bTasks EXCEPT
                    ![k].items = items,
                    ![k].state = IF allDone THEN "resolved" ELSE "fallback",
                    ![k].results = IF allDone
                                     THEN [m \in 1..Len(items) |->
                                             [index |-> bTasks[k].batch[m].index,
                                              embedding |-> items[m].value]]
                                     ELSE <<>>]
               /\ UNCHANGED <<bPc, bResult>>
  /\ UNCHANGED <<apiKeySet, bTexts, bBatchSize, bConcurrency, bValid, bBatches, bI, bAll,
                 bCompleted, bProgress, bCalled, bSettled, bFellBack>>

\* await Promise.all(batchPromises) resolves: collect, report progress, and
\* either start the next group or sort and return.
GroupResolves ==
  /\ bPc = "group"
  /\ \A k \in 1..Len(bTasks) : bTasks[k].state = "resolved"
  /\ LET all == bAll \o Flatten([k \in 1..Len(bTasks) |-> bTasks[k].results])
         completed == bCompleted + SumLen([k \in 1..Len(bTasks) |-> bTasks[k].batch])
         i == bI + bConcurrency
     IN /\ bAll' = all
        /\ bCompleted' = completed
        /\ bProgress' = Append(bProgress, <<completed, Len(bValid)>>)
        /\ bI' = i
        /\ IF i < Len(bBatches)
             THEN /\ bTasks' = StartGroup(bBatches, i, bConcurrency)
                  /\ bCalled' = bCalled \cup GroupCalls(bTasks')
                  /\ UNCHANGED <<bPc, bResult>>
             ELSE /\ bPc' = "done"
                  /\ bResult' = FinishBatch(all)
                  /\ UNCHANGED <<bTasks, bCalled>>
  /\ UNCHANGED <<apiKeySet, bTexts, bBatchSize, bConcurrency, bValid, bBatches, bSettled,
                 bFellBack>>

BatInit ==
  /\ bPc = "idle"
  /\ bTexts = <<>>
  /\ bBatchSize = 1
  /\ bConcurrency = 1
  /\ bValid = <<>>
  /\ bBatches = <<>>
  /\ bI = 0
  /\ bTasks = <<>>
  /\ bAll = <<>>
  /\ bCompleted = 0
  /\ bProgress = <<>>
  /\ bCalled = {}
  /\ bSettled = <<>>
  /\ bFellBack = {}
  /\ bResult = NoResult

(***************************************************************************)
(* lib/pinecone.ts: createIndex, indexExists, waitForIndexReady            *)
(***************************************************************************)
MissingPineconeKeyError ==
  MkError("Error", <<"PINECONE_API_KEY", "is", "not", "set", "in", "environment", "variables">>)

IndexTimeoutError ==
  MkError("Error", <<"Index", "did", "not", "become", "ready", "within", "60000ms">>)

\* rejections of client.createIndex
IndexConflictError == MkError("PineconeError", <<"index", "already", "exists">>)

IndexServiceError == MkError("PineconeError", <<"service", "unavailable">>)

\* The service's state of the configured index.
IndexStates == {"absent", "initializing", "ready"}

\* client.listIndexes() resolves with the indexes the service has, or rejects
ListOutcomes == {"ok", "error"}

\* client.createIndex(...) resolves when the service accepts the request; the
\* service rejects a second index of the same name
CreateOutcomes(service) ==
  IF service = "absent" THEN {"created", "error"} ELSE {"conflict", "error"}

\* client.describeIndex(name) resolves with the status or rejects; an
\* initializing index may have become ready by the time of the call
DescribeOutcomes(service) ==
  IF service = "ready" THEN {"ready", "error"} ELSE {"ready", "pending", "error"}

\* time one describeIndex call takes
Latencies == {0, MaxLatencyMs}

\* indexExists: indexes.indexes?.some(index => index.name === name) || false,
\* and false when listIndexes rejects (the catch block)
IndexExists(outcome, service) == outcome = "ok" /\ service # "absent"

\* Mutant: any description that arrives counts as ready.
StatusReadyAny(outcome) == outcome # "error"

\* description.status?.ready; a rejected describeIndex is swallowed
StatusReady(outcome) == outcome = "ready"

\* while (Date.now() - startTime < maxWaitMs)
WaitContinues(elapsed, maxWaitMs) == elapsed < maxWaitMs

\* createIndex up to `await indexExists(name)`
CreateIndexEnter ==
  /\ ixPc \in {"idle", "returned", "thrown"}
  /\ ixCalls < MaxCreateCalls
  /\ ixCalls' = ixCalls + 1
  /\ ixExisted' = (ixService # "absent")
  /\ ixRequested' = 0
  /\ ixPolls' = 0
  /\ ixPollStart' = 0
  /\ ixSleeps' = 0
  /\ ixReported' = "none"
  /\ ixElapsed' = 0
  /\ IF pineconeKeySet
       THEN /\ ixPc' = "listing"
            /\ ixResult' = NoResult
       ELSE /\ ixPc' = "thrown"
            /\ ixResult' = Threw(MissingPineconeKeyError)
  /\ UNCHANGED <<pineconeKeySet, ixService, ixCreates>>

\* indexExists settles: return if the index exists, else send the create request
IndexExistsSettles(outcome) ==
  /\ ixPc = "listing"
  /\ IF IndexExists(outcome, ixService)
       THEN /\ ixPc' = "returned"
            /\ ixResult' = Returned(<<>>)
            /\ UNCHANGED <<ixRequested, ixCreates>>
       ELSE /\ ixPc' = "creating"
            /\ ixRequested' = ixRequested + 1
            /\ ixCreates' = ixCreates + 1
            /\ UNCHANGED ixResult
  /\ UNCHANGED <<pineconeKeySet, ixService, ixElapsed, ixPolls, ixPollStart, ixSleeps,
                 ixReported, ixExisted, ixCalls>>

\* client.createIndex settles: a rejection propagates; otherwise
\* waitForIndexReady starts and issues its first describeIndex
CreateRequestSettles(outcome) ==
  /\ ixPc = "creating"
  /\ outcome \in CreateOutcomes(ixService)
  /\ IF outcome = "created"
       THEN /\ ixService' = "initializing"
            /\ ixElapsed' = 0
            /\ IF WaitContinues(0, MaxWaitMs)
                 THEN /\ ixPc' = "describing"
                      /\ ixPolls' = 1
                      /\ UNCHANGED ixResult
                 ELSE /\ ixPc' = "thrown"
                      /\ ixResult' = Threw(IndexTimeoutError)
                      /\ UNCHANGED ixPolls
       ELSE /\ ixPc' = "thrown"
            /\ ixResult' = Threw(IF outcome = "conflict" THEN IndexConflictError
                                                          ELSE IndexServiceError)
            /\ UNCHANGED <<ixService, ixElapsed, ixPolls>>
  /\ UNCHANGED <<pineconeKeySet, ixPollStart, ixSleeps, ixReported, ixExisted, ixRequested,
                 ixCreates, ixCalls>>

\* describeIndex settles after `latency` ms: return when ready, else start
\* the 2 s timer
DescribeSettles(latency, outcome) ==
  /\ ixPc = "describing"
  /\ outcome \in DescribeOutcomes(ixService)
  /\ ixElapsed' = ixElapsed + latency
  /\ ixReported' = outcome
  /\ ixService' = IF outcome = "ready" THEN "ready" ELSE ixService
  /\ IF StatusReady(outcome)
       THEN /\ ixPc' = "returned"
            /\ ixResult' = Returned(<<>>)
       ELSE /\ ixPc' = "sleeping"
            /\ UNCHANGED ixResult
  /\ UNCHANGED <<pineconeKeySet, ixPolls, ixPollStart, ixSleeps, ixExisted, ixRequested,
                 ixCreates, ixCalls>>

\* the timer fires: test the loop condition, then poll again or give up
SleepEnds ==
  /\ ixPc = "sleeping"
  /\ ixElapsed' = ixElapsed + PollIntervalMs
  /\ ixSleeps' = ixSleeps + 1
  /\ IF WaitContinues(ixElapsed', MaxWaitMs)
       THEN /\ ixPc' = "describing"
            /\ ixPolls' = ixPolls + 1
            /\ ixPollStart' = ixElapsed'
            /\ UNCHANGED ixResult
       ELSE /\ ixPc' = "thrown"
            /\ ixResult' = Threw(IndexTimeoutError)
            /\ UNCHANGED <<ixPolls, ixPollStart>>
  /\ UNCHANGED <<pineconeKeySet, ixService, ixReported, ixExisted, ixRequested, ixCreates,
                 ixCalls>>

IxInit ==
  /\ pineconeKeySet \in BOOLEAN
  /\ ixService \in IndexStates
  /\ ixPc = "idle"
  /\ ixElapsed = 0
  /\ ixPolls = 0
  /\ ixPollStart = 0
  /\ ixSleeps = 0
  /\ ixReported = "none"
  /\ ixExisted = FALSE
  /\ ixRequested = 0
  /\ ixCreates = 0
  /\ ixCalls = 0
  /\ ixResult = NoResult

\* The index as the other components find it: configured and ready.
IxReady == IxInit /\ pineconeKeySet /\ ixService = "ready"

\* indexExists() as POST calls it: a missing key makes getPineconeClient throw
\* inside the try block, and the catch block returns false
IndexExistsAnswer(keySet, outcome, service) == keySet /\ IndexExists(outcome, service)

\* POST: `await indexExists()` has settled
ChatIndexChecked(outcome) ==
  /\ cPc \in {"waiting", "aborted"}
  /\ hPc = "idle"
  /\ IF IndexExistsAnswer(pineconeKeySet, outcome, ixService)
       THEN /\ hPc' = "querying"
            /\ UNCHANGED hResponse
       ELSE /\ hPc' = "responded"
            /\ hResponse' = IndexNotReadyResponse
  /\ UNCHANGED <<cPc, cCitations, cRead>>

(***************************************************************************)
(* lib/pinecone.ts: upsertVectors(vectors, {batchSize = 100, onProgress})  *)
(***************************************************************************)
\* A VectorRecord.  `origin` is not in the code: it names the document (file
\* and row) the record was built from.
VectorRecord(id, values, metadata, origin) ==
  [id |-> id, values |-> values, metadata |-> metadata, origin |-> origin]

\* ChunkMetadata
ChunkMetadata(title, url, content, chunkIndex, articleId) ==
  [title |-> title, url |-> url, content |-> content, chunkIndex |-> chunkIndex,
   articleId |-> articleId]

\* rejections of index.upsert
UpsertErrors == {IndexServiceError, MkError("PineconeError", <<"vector", "dimension", "mismatch">>)}

\* what one index.upsert call can answer
UpsertOutcomes == {NoError} \cup UpsertErrors

\* The service stores one record per id: a record replaces the stored one of
\* the same id, so the last one of a batch wins.
RECURSIVE UpsertInto(_, _)
UpsertInto(store, batch) ==
  IF batch = <<>>
    THEN store
    ELSE UpsertInto({r \in store : r.id # Head(batch).id} \cup {Head(batch)}, Tail(batch))

\* vectors.slice(i, i + batchSize)
UpsertBatch(vectors, i, batchSize) == SubSeq(vectors, i + 1, Min(i + batchSize, Len(vectors)))

\* Mutant: the error is wrapped in a new one.
RethrowWrapped(error) ==
  Threw(MkError("Error", <<"Failed", "to", "upsert", "vectors:">> \o error.message))

\* catch (error) { console.error(...); throw error; }
Rethrow(error) == Threw(error)

\* upsertVectors up to its first `await index.upsert(batch)`
UpsertVectorsEnter(vectors, batchSize) ==
  /\ uPc \in {"idle", "returned", "thrown"}
  /\ uVectors' = vectors
  /\ uBatchSize' = batchSize
  /\ uI' = 0
  /\ uCompleted' = 0
  /\ uStoreBefore' = uStore
  /\ uOutcomes' = <<>>
  /\ uProgress' = <<>>
  /\ IF Len(vectors) = 0
       THEN /\ uPc' = "returned"
            /\ uResult' = Returned(<<>>)
            /\ uSent' = <<>>
       ELSE IF ~pineconeKeySet
         THEN /\ uPc' = "thrown"
              /\ uResult' = Threw(MissingPineconeKeyError)
              /\ uSent' = <<>>
         ELSE /\ uPc' = "upserting"
              /\ uResult' = NoResult
              /\ uSent' = <<UpsertBatch(vectors, 0, batchSize)>>
  /\ UNCHANGED uStore

\* index.upsert(batch) settles: count, report progress and send the next
\* batch or return; a rejection is rethrown
UpsertSettles(outcome) ==
  /\ uPc = "upserting"
  /\ uOutcomes' = Append(uOutcomes, outcome)
  /\ IF outcome = NoError
       THEN LET batch == UpsertBatch(uVectors, uI, uBatchSize)
                completed == uCompleted + Len(batch)
                i == uI + uBatchSize
            IN /\ uStore' = UpsertInto(uStore, batch)
               /\ uCompleted' = completed
               /\ uProgress' = Append(uProgress, <<completed, Len(uVectors)>>)
               /\ uI' = i
               /\ IF i < Len(uVectors)
                    THEN /\ uSent' = Append(uSent, UpsertBatch(uVectors, i, uBatchSize))
                         /\ UNCHANGED <<uPc, uResult>>
                    ELSE /\ uPc' = "returned"
                         /\ uResult' = Returned(<<>>)
                         /\ UNCHANGED uSent
       ELSE /\ uPc' = "thrown"
            /\ uResult' = Rethrow(outcome)
            /\ UNCHANGED <<uStore, uCompleted, uProgress, uI, uSent>>
  /\ UNCHANGED <<uVectors, uBatchSize, uStoreBefore>>

UpInit ==
  /\ uPc = "idle"
  /\ uVectors = <<>>
  /\ uBatchSize = 1
  /\ uI = 0
  /\ uCompleted = 0
  /\ uStore = {}
  /\ uStoreBefore = {}
  /\ uSent = <<>>
  /\ uOutcomes = <<>>
  /\ uProgress = <<>>
  /\ uResult = NoResult

(***************************************************************************)
(* app/api/ingest/upload/route.ts: POST, parseCSVFile, parsePDFFile,       *)
(* processArticles; lib/pinecone.ts: buildVectorId.                        *)
(* A text is a sequence of sentences, each of which fills one chunk.       *)
(***************************************************************************)
DigitChars == <<"0", "1", "2", "3", "4", "5", "6", "7", "8", "9">>

\* String(n) and `${n}` of a non-negative integer
RECURSIVE Digits(_)
Digits(n) ==
  IF n < 10 THEN <<DigitChars[n + 1]>>
            ELSE Digits(n \div 10) \o <<DigitChars[(n % 10) + 1]>>

\* `article-${articleId}-chunk-${chunkIndex}`
BuildVectorId(articleId, chunkIndex) ==
  <<"article-">> \o articleId \o <<"-chunk-">> \o Digits(chunkIndex)

\* one parsed CSV row; id and title are empty when the row has no such value
CsvRow(id, title, content) == [id |-> id, title |-> title, content |-> content]

CsvFile(base, rows) ==
  [name |-> [base |-> base, ext |-> "csv"], rows |-> rows, text |-> <<>>]

OtherFile(base, ext, text) ==
  [name |-> [base |-> base, ext |-> ext], rows |-> <<>>, text |-> text]

\* The files that can be uploaded.
Files ==
  { CsvFile("plain", <<CsvRow(<<>>, "A", <<"s1">>), CsvRow(<<>>, "", <<"s2", "s3">>)>>),
    CsvFile("other", <<CsvRow(<<>>, "C", <<"s3">>)>>),
    CsvFile("ids", <<CsvRow(<<"7">>, "A", <<"s1">>), CsvRow(<<"8">>, "B", <<"s2", "s3">>)>>),
    CsvFile("mixed", <<CsvRow(<<>>, "A", <<"s1">>), CsvRow(<<"0">>, "C", <<"s3">>)>>),
    CsvFile("blank", <<CsvRow(<<"9">>, "D", <<>>)>>),
    CsvFile("gaps", <<CsvRow(<<"5">>, "E", <<"s1", "", "s2">>), CsvRow(<<"6">>, "F", <<"s3">>)>>),
    OtherFile("a", "pdf", <<"s1">>),
    OtherFile("b", "pdf", <<"s2", "s3">>),
    OtherFile("empty", "pdf", <<>>),
    OtherFile("notes", "txt", <<"s1">>) }

\* An article; `origin` is not in the code: the file and row it came from.
Article(id, title, url, content, origin) ==
  [id |-> id, title |-> title, url |-> url, content |-> content, origin |-> origin]

\* parseCSVFile: results.data.map((row, index) => ...).filter(Boolean)
ParseCSVFile(file) ==
  SelectSeq([k \in 1..Len(file.rows) |->
               Article(IF file.rows[k].id # <<>> THEN file.rows[k].id ELSE Digits(k - 1),
                       IF file.rows[k].title # "" THEN file.rows[k].title ELSE "Untitled",
                       "",
                       file.rows[k].content,
                       <<file.name.base, k - 1>>)],
            LAMBDA article : article.content # <<>>)

\* parsePDFFile, for a PDF with extractable text
ParsePDFFile(file, now) ==
  <<Article(<<"pdf-">> \o Digits(now), file.name.base, "", file.text, <<file.name.base, 0>>)>>

\* text.trim().length === 0 of a chunk; the piece "" of a content stands for
\* a stretch of the text that yields a chunk of nothing but whitespace
BlankChunk(chunk) == chunk = <<"">>

\* `chunks` of chunkText(`${title}\n\n${cleanedContent}`) before the final filter
CandidateChunks(article) ==
  [k \in 1..Len(article.content) |->
     IF k = 1 THEN <<article.title, article.content[1]>> ELSE <<article.content[k]>>]

\* Mutant: chunkText returns its chunks unfiltered.
UnfilteredChunks(article) == CandidateChunks(article)

\* prepareArticle(...).chunks: chunkText(`${title}\n\n${cleanedContent}`),
\* which ends with chunks.filter((chunk) => chunk.trim().length > 0)
PreparedChunks(article) ==
  SelectSeq(CandidateChunks(article), LAMBDA chunk : ~BlankChunk(chunk))

\* what batchGenerateEmbeddings(texts) resolves to: the embeddings of the
\* texts that are not blank, in input order
EmbeddingsFor(texts) ==
  LET validTexts == SelectSeq(texts, LAMBDA text : ~BlankChunk(text)) IN
  [k \in 1..Len(validTexts) |-> EmbeddingOf(validTexts[k])]

\* allChunks
ChunkTexts(chunks) == [k \in 1..Len(chunks) |-> chunks[k].chunk]

\* `embeddings` before batchGenerateEmbeddings has settled, when it has
\* resolved, and when it has rejected
EmbeddingsPending == [settled |-> "pending", embeddings |-> <<>>]
EmbeddingsReturned(embeddings) == [settled |-> "resolved", embeddings |-> embeddings]
EmbeddingsRejected == [settled |-> "rejected", embeddings |-> <<>>]

\* Mutant: a rejection of batchGenerateEmbeddings is ignored.
EmbeddingsAlwaysResolved(ok) == TRUE

\* await batchGenerateEmbeddings(...) resolved (a rejection goes to the
\* catch block of the handler)
EmbeddingsResolved(ok) == ok

\* the entries processArticles pushes for one article
ArticleChunks(article) ==
  LET chunks == PreparedChunks(article) IN
  [k \in 1..Len(chunks) |->
     [articleId |-> article.id, title |-> article.title, url |-> article.url,
      chunkIndex |-> k - 1, chunk |-> chunks[k], origin |-> article.origin]]

\* chunkMetadata (with allChunks) over all articles, in order
CollectChunks(articles) == Flatten([a \in 1..Len(articles) |-> ArticleChunks(articles[a])])

\* Step 3 of processArticles: embeddings.map((embedding, index) => ...), and
\* embeddings.forEach((embedding, idx) => ...) of the batch route
BuildVectors(chunks, embeddings) ==
  [k \in 1..Len(embeddings) |->
     VectorRecord(BuildVectorId(chunks[k].articleId, chunks[k].chunkIndex),
                  embeddings[k],
                  ChunkMetadata(chunks[k].title, chunks[k].url, chunks[k].chunk,
                                chunks[k].chunkIndex, chunks[k].articleId),
                  chunks[k].origin)]

VectorIds(vectors) == {vectors[k].id : k \in 1..Len(vectors)}

\* A handler answers: NextResponse.json(..., { status }).
RespondFrom(route, file, status, ids, store) ==
  /\ gLog' = Append(gLog, [route |-> route, file |-> file.name, status |-> status,
                           ids |-> ids, store |-> store])
  /\ gPc' = "idle"

\* The answer of POST /api/ingest/upload.
Respond(file, status, ids, store) == RespondFrom("upload", file, status, ids, store)

\* The answer of POST /api/ingest.
BatchRespond(file, status, ids, store) == RespondFrom("ingest", file, status, ids, store)

\* POST up to `await batchGenerateEmbeddings(allChunks, ...)`
UploadPost(file, tick) ==
  /\ gPc = "idle"
  /\ gUploads < MaxUploads
  /\ gUploads' = gUploads + 1
  /\ gNow' = gNow + tick
  /\ gFile' = file
  /\ gEmbeddings' = EmbeddingsPending
  /\ IF file.name.ext \notin {"csv", "pdf"}
       THEN /\ Respond(file, 400, {}, uStore)
            /\ UNCHANGED <<gArticles, gChunks>>
       ELSE IF file.name.ext = "pdf" /\ file.text = <<>>
         THEN /\ Respond(file, 500, {}, uStore)
              /\ UNCHANGED <<gArticles, gChunks>>
         ELSE LET articles == IF file.name.ext = "csv" THEN ParseCSVFile(file)
                                                      ELSE ParsePDFFile(file, gNow')
              IN /\ gArticles' = articles
                 /\ IF Len(articles) = 0
                      THEN /\ Respond(file, 400, {}, uStore)
                           /\ UNCHANGED gChunks
                      ELSE /\ gChunks' = CollectChunks(articles)
                           /\ gPc' = "embedding"
                           /\ UNCHANGED gLog
  /\ UNCHANGED <<gEver, upVars>>

\* batchGenerateEmbeddings settles: on success the vector records are built
\* and upsertVectors(vectors, {batchSize: 100}) begins
UploadEmbedded(ok) ==
  /\ gPc = "embedding"
  /\ gEmbeddings' = IF ok THEN EmbeddingsReturned(EmbeddingsFor(ChunkTexts(gChunks)))
                          ELSE EmbeddingsRejected
  /\ IF EmbeddingsResolved(ok)
       THEN /\ UpsertVectorsEnter(BuildVectors(gChunks, EmbeddingsFor(ChunkTexts(gChunks))),
                                  UploadBatchSize)
            /\ IF uPc' = "upserting"
                 THEN /\ gPc' = "upserting"
                      /\ UNCHANGED gLog
                 ELSE Respond(gFile, 500, VectorIds(uVectors'), uStore)
       ELSE /\ Respond(gFile, 500, {}, uStore)
            /\ UNCHANGED upVars
  /\ UNCHANGED <<gUploads, gNow, gFile, gArticles, gChunks, gEver>>

\* index.upsert settles inside upsertVectors; when upsertVectors has
\* returned the handler awaits getIndexStats(), when it has thrown the
\* handler answers 500
UploadUpsertSettles(outcome) ==
  /\ gPc = "upserting"
  /\ UpsertSettles(outcome)
  /\ gEver' = IF outcome = NoError
                THEN gEver \cup {[id |-> uSent[Len(uSent)][k].id,
                                  origin |-> uSent[Len(uSent)][k].origin] :
                                     k \in 1..Len(uSent[Len(uSent)])}
                ELSE gEver
  /\ IF uPc' = "upserting"
       THEN UNCHANGED <<gPc, gLog>>
       ELSE IF uPc' = "returned"
         THEN /\ gPc' = "stats"
              /\ UNCHANGED gLog
         ELSE Respond(gFile, 500, VectorIds(uVectors), uStore')
  /\ UNCHANGED <<gUploads, gNow, gFile, gArticles, gChunks, gEmbeddings>>

\* getIndexStats() settles and the handler answers
UploadStatsSettle(ok) ==
  /\ gPc = "stats"
  /\ Respond(gFile, IF ok THEN 200 ELSE 500, VectorIds(uVectors), uStore)
  /\ UNCHANGED <<gUploads, gNow, gFile, gArticles, gChunks, gEmbeddings, gEver, upVars>>

(***************************************************************************)
(* POST /api/ingest: one batch of the rows of wordpress_posts.csv          *)
(***************************************************************************)
\* the rows of the batch that have an id, a title and a content
BatchArticles(file) ==
  SelectSeq([k \in 1..Len(file.rows) |->
               Article(file.rows[k].id, file.rows[k].title, "", file.rows[k].content,
                       <<file.name.base, k - 1>>)],
            LAMBDA article : article.id # <<>> /\ article.title # "" /\ article.content # <<>>)

\* POST up to `await batchGenerateEmbeddings(allChunkTexts, ...)`
IngestPost(file, outcome) ==
  /\ gPc = "idle"
  /\ gUploads < MaxUploads
  /\ gUploads' = gUploads + 1
  /\ gFile' = file
  /\ gEmbeddings' = EmbeddingsPending
  /\ IF ~IndexExistsAnswer(pineconeKeySet, outcome, ixService)
       THEN /\ BatchRespond(file, 400, {}, uStore)
            /\ UNCHANGED <<gArticles, gChunks>>
       ELSE /\ gArticles' = BatchArticles(file)
            /\ gChunks' = CollectChunks(BatchArticles(file))
            /\ IF Len(CollectChunks(BatchArticles(file))) = 0
                 THEN BatchRespond(file, 200, {}, uStore)
                 ELSE /\ gPc' = "ingestEmbedding"
                      /\ UNCHANGED gLog
  /\ UNCHANGED <<gNow, gEver, upVars>>

\* batchGenerateEmbeddings settles: on success the vector records are built
\* and upsertVectors(allVectors, {batchSize: 100}) begins
IngestEmbedded(ok) ==
  /\ gPc = "ingestEmbedding"
  /\ gEmbeddings' = IF ok THEN EmbeddingsReturned(EmbeddingsFor(ChunkTexts(gChunks)))
                          ELSE EmbeddingsRejected
  /\ IF EmbeddingsResolved(ok)
       THEN /\ UpsertVectorsEnter(BuildVectors(gChunks, EmbeddingsFor(ChunkTexts(gChunks))),
                                  UploadBatchSize)
            /\ IF uPc' = "upserting"
                 THEN /\ gPc' = "ingestUpserting"
                      /\ UNCHANGED gLog
                 ELSE BatchRespond(gFile, 500, VectorIds(uVectors'), uStore)
       ELSE /\ BatchRespond(gFile, 500, {}, uStore)
            /\ UNCHANGED upVars
  /\ UNCHANGED <<gUploads, gNow, gFile, gArticles, gChunks, gEver>>

\* index.upsert settles inside upsertVectors; the handler answers when
\* upsertVectors has returned or thrown
IngestUpsertSettles(outcome) ==
  /\ gPc = "ingestUpserting"
  /\ UpsertSettles(outcome)
  /\ gEver' = IF outcome = NoError
                THEN gEver \cup {[id |-> uSent[Len(uSent)][k].id,
                                  origin |-> uSent[Len(uSent)][k].origin] :
                                     k \in 1..Len(uSent[Len(uSent)])}
                ELSE gEver
  /\ IF uPc' = "upserting"
       THEN UNCHANGED <<gPc, gLog>>
       ELSE BatchRespond(gFile, IF uPc' = "returned" THEN 200 ELSE 500, VectorIds(uVectors), uStore')
  /\ UNCHANGED <<gUploads, gNow, gFile, gArticles, gChunks, gEmbeddings>>

IngestInit ==
  /\ gPc = "idle"
  /\ gUploads = 0
  /\ gNow = 0
  /\ gFile = OtherFile("", "", <<>>)
  /\ gArticles = <<>>
  /\ gChunks = <<>>
  /\ gEmbeddings = EmbeddingsPending
  /\ gEver = {}
  /\ gLog = <<>>

(***************************************************************************)
(* lib/text-processing.ts: estimateTokens, chunkText.                      *)
(* A string is a sequence of words joined by single spaces.  A word is     *)
(* [s, w, len]: its length in characters and, not in the code, the         *)
(* sentence s and the position w in that sentence it comes from.  The      *)
(* sentences of a text are its maximal runs of words with the same s.      *)
(***************************************************************************)
Word(s, w, len) == [s |-> s, w |-> w, len |-> len]

RECURSIVE SumChars(_)
SumChars(words) == IF words = <<>> THEN 0 ELSE Head(words).len + SumChars(Tail(words))

\* text.length
StrLen(words) == IF words = <<>> THEN 0 ELSE SumChars(words) + Len(words) - 1

\* Math.ceil(length / 3.5)
CeilDiv3_5(chars) == (2 * chars + 6) \div 7

\* estimateTokens(text)
EstimateTokens(words) == CeilDiv3_5(StrLen(words))

\* text.trim(): a word of no characters at either end of a string stands for
\* the whitespace the string starts or ends with
RECURSIVE TrimWordsStart(_)
TrimWordsStart(words) ==
  IF words = <<>> \/ Head(words).len > 0 THEN words ELSE TrimWordsStart(Tail(words))

RECURSIVE TrimWordsEnd(_)
TrimWordsEnd(words) ==
  IF words = <<>> \/ words[Len(words)].len > 0 THEN words
  ELSE TrimWordsEnd(SubSeq(words, 1, Len(words) - 1))

\* Mutant: the length of the string as it is.
UntrimmedLength(words) == StrLen(words)

\* text.trim().length
TrimmedLength(words) == StrLen(TrimWordsEnd(TrimWordsStart(words)))

\* !text || text.trim().length === 0
BlankText(words) == words = <<>> \/ TrimmedLength(words) = 0

\* Math.floor(tokens * 0.75)
WordsFor(tokens) == (3 * tokens) \div 4

\* the words of the text that belong to sentence s
RECURSIVE SentenceOf(_, _)
SentenceOf(text, s) ==
  IF text = <<>> THEN <<>>
  ELSE IF Head(text).s = s THEN <<Head(text)>> \o SentenceOf(Tail(text), s)
  ELSE SentenceOf(Tail(text), s)

\* splitIntoSentences(text)
SplitIntoSentences(text) ==
  IF text = <<>> THEN <<>>
  ELSE [k \in 1..text[Len(text)].s |-> SentenceOf(text, k)]

\* Mutant: each chunk starts after the overlap instead of before it.
WordStepPast(maxWords, overlapWords) == maxWords + overlapWords

\* i += (maxWords - overlapWords)
WordStep(maxWords, overlapWords) == maxWords - overlapWords

\* The loop of chunkByWords does not end when its step is not positive.
WordLoopHangs(maxTokens, overlap) == WordStep(WordsFor(maxTokens), WordsFor(overlap)) <= 0

\* words.slice(i, i + maxWords), i counted from 0
SliceWords(words, i, maxWords) == SubSeq(words, i + 1, Min(i + maxWords, Len(words)))

RECURSIVE WordChunksFrom(_, _, _, _)
WordChunksFrom(words, i, maxWords, step) ==
  IF i >= Len(words) THEN <<>>
  ELSE <<SliceWords(words, i, maxWords)>> \o WordChunksFrom(words, i + step, maxWords, step)

\* chunkByWords(text, maxTokens, overlap), for a step that is positive
ChunkByWords(words, maxTokens, overlap) ==
  WordChunksFrom(words, 0, WordsFor(maxTokens),
                 WordStep(WordsFor(maxTokens), WordsFor(overlap)))

\* getOverlapSentences(sentences, overlapTokens): sentences from the end
\* while their token estimates fit
RECURSIVE OverlapFrom(_, _, _, _)
OverlapFrom(sentences, i, tokens, overlapTokens) ==
  IF i < 1 \/ tokens + EstimateTokens(sentences[i]) > overlapTokens
    THEN <<>>
    ELSE OverlapFrom(sentences, i - 1, tokens + EstimateTokens(sentences[i]), overlapTokens)
           \o <<sentences[i]>>

GetOverlapSentences(sentences, overlapTokens) ==
  OverlapFrom(sentences, Len(sentences), 0, overlapTokens)

\* currentChunk.join(" ")
JoinSentences(sentences) == Flatten(sentences)

\* A chunk as the loop builds it; `seed` is not in the code: the overlap
\* sentences the chunk was started with.
BuiltChunk(words, seed) == [words |-> words, seed |-> seed]

\* The sentence loop of chunkText from sentence i on: `chunks` are the chunks
\* pushed so far, `current` the sentences of currentChunk, `seed` the overlap
\* it was started with, `tokens` currentTokens.
RECURSIVE SentenceLoop(_, _, _, _, _, _, _, _)
SentenceLoop(sentences, i, chunks, current, seed, tokens, maxTokens, overlap) ==
  IF i > Len(sentences)
    THEN IF Len(current) > 0
           THEN Append(chunks, BuiltChunk(JoinSentences(current), seed))
           ELSE chunks
    ELSE
      LET sentence == sentences[i]
          sentenceTokens == EstimateTokens(sentence) IN
      IF sentenceTokens > maxTokens
        THEN LET flushed == IF Len(current) > 0
                              THEN Append(chunks, BuiltChunk(JoinSentences(current), seed))
                              ELSE chunks
                 wordChunks == ChunkByWords(sentence, maxTokens, overlap) IN
             SentenceLoop(sentences, i + 1,
                          flushed \o [j \in 1..Len(wordChunks) |-> BuiltChunk(wordChunks[j], <<>>)],
                          <<>>, <<>>, 0, maxTokens, overlap)
        ELSE IF tokens + sentenceTokens > maxTokens /\ Len(current) > 0
          THEN LET overlapSentences == GetOverlapSentences(current, overlap) IN
               SentenceLoop(sentences, i + 1,
                            Append(chunks, BuiltChunk(JoinSentences(current), seed)),
                            Append(overlapSentences, sentence), overlapSentences,
                            EstimateTokens(JoinSentences(overlapSentences)) + sentenceTokens,
                            maxTokens, overlap)
          ELSE SentenceLoop(sentences, i + 1, chunks, Append(current, sentence), seed,
                            tokens + sentenceTokens, maxTokens, overlap)

\* some sentence of the text goes through chunkByWords
HasOversizedSentence(text, maxTokens) ==
  \E k \in 1..Len(SplitIntoSentences(text)) :
    EstimateTokens(SplitIntoSentences(text)[k]) > maxTokens

ChunkConfig(maxTokens, overlap, preserveSentences) ==
  [maxTokens |-> maxTokens, overlap |-> overlap, preserveSentences |-> preserveSentences]

\* chunkText does not return
ChunkTextHangs(text, config) ==
  /\ ~BlankText(text)
  /\ EstimateTokens(text) > config.maxTokens
  /\ WordLoopHangs(config.maxTokens, config.overlap)
  /\ (config.preserveSentences => HasOversizedSentence(text, config.maxTokens))

\* chunkText(text, config) when it returns, as built chunks
BuildChunks(text, config) ==
  IF BlankText(text) THEN <<>>
  ELSE IF EstimateTokens(text) <= config.maxTokens THEN <<BuiltChunk(text, <<>>)>>
  ELSE IF config.preserveSentences
    THEN SentenceLoop(SplitIntoSentences(text), 1, <<>>, <<>>, <<>>, 0,
                      config.maxTokens, config.overlap)
    ELSE LET wordChunks == ChunkByWords(text, config.maxTokens, config.overlap) IN
         [j \in 1..Len(wordChunks) |-> BuiltChunk(wordChunks[j], <<>>)]

\* chunks.filter((chunk) => chunk.trim().length > 0)
RECURSIVE NonEmptyChunks(_)
NonEmptyChunks(built) ==
  IF built = <<>> THEN <<>>
  ELSE IF TrimmedLength(Head(built).words) > 0
    THEN <<Head(built)>> \o NonEmptyChunks(Tail(built))
  ELSE NonEmptyChunks(Tail(built))

\* chunkText(text, config) when it returns
ChunkText(text, config) ==
  LET built == NonEmptyChunks(BuildChunks(text, config)) IN
  [j \in 1..Len(built) |-> built[j].words]

\* Texts: sentences of one to three words of three or seven characters.
SentenceShapes == {<<3>>, <<7>>, <<7, 7>>, <<3, 3, 3>>}

MkSentence(s, shape) == [w \in 1..Len(shape) |-> Word(s, w, shape[w])]

MkText(shapes) == Flatten([s \in 1..Len(shapes) |-> MkSentence(s, shapes[s])])

\* the whitespace a text starts with
LeadingSpace == Word(0, 0, 0)

\* Texts of sentences, the same texts after a space, and texts of nothing
\* but one or two spaces.
ChunkerTexts ==
  LET plain == {MkText(shapes) : shapes \in SeqsUpTo(SentenceShapes, MaxSentences)} IN
  plain \cup {<<LeadingSpace>> \o t : t \in plain \ {<<>>}}
        \cup {<<LeadingSpace, LeadingSpace>>, <<LeadingSpace, LeadingSpace, LeadingSpace>>}

ChunkConfigs ==
  { ChunkConfig(m, o, p) : m \in 1..MaxChunkTokens, o \in 0..MaxOverlapTokens, p \in BOOLEAN }

\* chunkText(text, config) is called
ChunkTextCall(text, config) ==
  /\ kPc = "idle"
  /\ kText' = text
  /\ kConfig' = config
  /\ IF ChunkTextHangs(text, config)
       THEN /\ kPc' = "hangs"
            /\ UNCHANGED <<kBuilt, kChunks>>
       ELSE /\ kPc' = "returned"
            /\ kBuilt' = NonEmptyChunks(BuildChunks(text, config))
            /\ kChunks' = ChunkText(text, config)

ChunkInit ==
  /\ kPc = "idle"
  /\ kText = <<>>
  /\ kConfig = ChunkConfig(0, 0, TRUE)
  /\ kBuilt = <<>>
  /\ kChunks = <<>>

(***************************************************************************)
(* The summarizer: summarizeChatMessage, summarizeLongDocument,            *)
(* twoStageSummarization, summarizeText, truncateToTokenLimit.             *)
(* Strings are sequences of words as for chunkText; a word with s = 0 is   *)
(* text that is not a sentence of the input.                               *)
(***************************************************************************)
\* Texts: sentences of one word of 2,000 to 10,000 estimated tokens.
SummarizerShapes == {<<7000>>, <<17500>>, <<21000>>, <<35000>>}

SummarizerTexts ==
  {MkText(shapes) : shapes \in SeqsUpTo(SummarizerShapes, MaxSummarizerSentences)} \ {<<>>}

\* maxOutputTokens of summarizeChatMessage, options.maxTokens of
\* summarizeLongDocument
OutputCaps == {DefaultMaxOutputTokens, DefaultDocumentTokens}

\* One call of openai.chat.completions.create: content of max_tokens
\* estimated tokens, no content, or a rejection.
SummaryOutcomes == {"full", "empty", "error"}

SummaryError == MkError("ProviderError", <<"model", "overloaded">>)

\* Math.floor(maxTokens * 3.5)
CharsFor(tokens) == (7 * tokens) \div 2

\* the content the model returns to call number `call`
ModelContent(call, maxTokens) == <<Word(0, call, CharsFor(maxTokens))>>

\* response.choices[0].message.content || text
ContentOrText(outcome, call, text, maxTokens) ==
  IF outcome = "full" THEN ModelContent(call, maxTokens) ELSE text

\* chunkSummaries.join("\n\n"): the separator is one character longer than
\* the space between words
ParagraphBreak == Word(0, 0, 0)

RECURSIVE JoinSummaries(_)
JoinSummaries(summaries) ==
  IF summaries = <<>> THEN <<>>
  ELSE IF Len(summaries) = 1 THEN summaries[1]
  ELSE summaries[1] \o <<ParagraphBreak>> \o JoinSummaries(Tail(summaries))

\* index of the last character of each sentence end ("." closes a sentence)
\* among the first maxChars characters, -1 when there is none
RECURSIVE LastPeriodFrom(_, _, _, _)
LastPeriodFrom(sentences, k, offset, maxChars) ==
  IF k > Len(sentences) THEN -1
  ELSE LET end == offset + StrLen(sentences[k]) - 1
           later == LastPeriodFrom(sentences, k + 1, end + 2, maxChars) IN
       IF end >= maxChars THEN -1
       ELSE IF later >= 0 THEN later ELSE end

LastPeriod(text, maxChars) == LastPeriodFrom(SplitIntoSentences(text), 1, 0, maxChars)

\* the sentences of the text that end at or before character index `last`
RECURSIVE SentencesThrough(_, _, _, _)
SentencesThrough(sentences, k, offset, last) ==
  IF k > Len(sentences) \/ offset + StrLen(sentences[k]) - 1 > last THEN <<>>
  ELSE sentences[k]
         \o SentencesThrough(sentences, k + 1, offset + StrLen(sentences[k]) + 1, last)

\* truncateToTokenLimit(text, maxTokens)
TruncateToTokenLimit(text, maxTokens) ==
  LET maxChars == CharsFor(maxTokens)
      lastPeriod == LastPeriod(text, maxChars) IN
  IF EstimateTokens(text) <= maxTokens THEN text
  ELSE IF 5 * lastPeriod > 4 * maxChars
    THEN SentencesThrough(SplitIntoSentences(text), 1, 0, lastPeriod)
    ELSE <<Word(0, 0, maxChars + 3)>>

NoSummary == [kind |-> "none", summary |-> <<>>, originalTokens |-> 0, summaryTokens |-> 0,
              error |-> NoError]

SummaryResult(summary, originalTokens) ==
  [kind |-> "value", summary |-> summary, originalTokens |-> originalTokens,
   summaryTokens |-> EstimateTokens(summary), error |-> NoError]

SummaryThrown(error) ==
  [kind |-> "throw", summary |-> <<>>, originalTokens |-> 0, summaryTokens |-> 0,
   error |-> error]

\* a call of summarizeText(text, maxTokens)
SummarizeTextCall(text, maxTokens) == [text |-> text, maxTokens |-> maxTokens]

\* tokens up to which the entry point returns its input unchanged
PassThroughLimit(fn, cap) == IF fn = "summarizeChatMessage" THEN PassThroughTokens ELSE cap

\* Mutant: the final condensation starts with the first chunk summary.
AnySummarized(done, n) == done # {}

\* await Promise.all(chunks.map(...)) resolved
AllSummarized(done, n) == done = 1..n

\* A summarizeText call rejected: the catch block of summarizeChatMessage
\* truncates; summarizeLongDocument has no catch block.
SummarizeFailed(error) ==
  IF sFn = "summarizeChatMessage"
    THEN /\ sPc' = "returned"
         /\ sResult' = SummaryResult(TruncateToTokenLimit(sText, FallbackTokens),
                                     EstimateTokens(sText))
    ELSE /\ sPc' = "thrown"
         /\ sResult' = SummaryThrown(error)

\* summarizeChatMessage(message, maxOutputTokens) or
\* summarizeLongDocument(text, {maxTokens}) up to the first await
SummarizeEnter(fn, text, cap) ==
  LET chunks == ChunkText(text, ChunkConfig(StageChunkTokens, StageOverlapTokens, TRUE)) IN
  /\ sPc = "idle"
  /\ sFn' = fn
  /\ sText' = text
  /\ sCap' = cap
  /\ sDone' = {}
  /\ IF EstimateTokens(text) <= PassThroughLimit(fn, cap)
       THEN /\ sPc' = "returned"
            /\ sResult' = SummaryResult(text, EstimateTokens(text))
            /\ sChunks' = <<>>
            /\ sSummaries' = <<>>
            /\ sCalls' = <<>>
       ELSE IF EstimateTokens(text) > TwoStageTokens
         THEN /\ sPc' = "stage1"
              /\ sChunks' = chunks
              /\ sSummaries' = [i \in 1..Len(chunks) |-> <<>>]
              /\ sCalls' = [i \in 1..Len(chunks) |->
                              SummarizeTextCall(chunks[i], ChunkSummaryTokens)]
              /\ UNCHANGED sResult
         ELSE /\ sPc' = "single"
              /\ sChunks' = <<>>
              /\ sSummaries' = <<>>
              /\ sCalls' = <<SummarizeTextCall(text, cap)>>
              /\ UNCHANGED sResult

\* the single-pass summarizeText call settles
SinglePassSettles(outcome) ==
  /\ sPc = "single"
  /\ IF outcome = "error"
       THEN SummarizeFailed(SummaryError)
       ELSE /\ sPc' = "returned"
            /\ sResult' = SummaryResult(ContentOrText(outcome, 1, sText, sCap),
                                        EstimateTokens(sText))
  /\ UNCHANGED <<sFn, sText, sCap, sChunks, sSummaries, sDone, sCalls>>

\* the summarizeText call of chunk i settles; the last one to resolve lets
\* twoStageSummarization go on to the final call
ChunkSummarySettles(i, outcome) ==
  /\ sPc = "stage1"
  /\ i \in 1..Len(sChunks)
  /\ i \notin sDone
  /\ IF outcome = "error"
       THEN /\ SummarizeFailed(SummaryError)
            /\ UNCHANGED <<sSummaries, sDone, sCalls>>
       ELSE LET summaries ==
                  [sSummaries EXCEPT ![i] = ContentOrText(outcome, i, sChunks[i],
                                                          ChunkSummaryTokens)] IN
            /\ sSummaries' = summaries
            /\ sDone' = sDone \cup {i}
            /\ IF AllSummarized(sDone \cup {i}, Len(sChunks))
                 THEN /\ sPc' = "stage2"
                      /\ sCalls' = Append(sCalls,
                                          SummarizeTextCall(JoinSummaries(summaries), sCap))
                 ELSE UNCHANGED <<sPc, sCalls>>
            /\ UNCHANGED sResult
  /\ UNCHANGED <<sFn, sText, sCap, sChunks>>

\* the final summarizeText call settles
FinalSummarySettles(outcome) ==
  /\ sPc = "stage2"
  /\ IF outcome = "error"
       THEN SummarizeFailed(SummaryError)
       ELSE /\ sPc' = "returned"
            /\ sResult' = SummaryResult(ContentOrText(outcome, Len(sCalls),
                                                      sCalls[Len(sCalls)].text, sCap),
                                        EstimateTokens(sText))
  /\ UNCHANGED <<sFn, sText, sCap, sChunks, sSummaries, sDone, sCalls>>

SummInit ==
  /\ sFn = "none"
  /\ sPc = "idle"
  /\ sText = <<>>
  /\ sCap = 0
  /\ sChunks = <<>>
  /\ sSummaries = <<>>
  /\ sDone = {}
  /\ sCalls = <<>>
  /\ sResult = NoSummary

(***************************************************************************)
(* POST /api/chat up to the index check: checkRateLimit and                *)
(* ChatRequestSchema.  Time is Date.now() in milliseconds.                 *)
(***************************************************************************)
\* request.headers.get("x-forwarded-for"), "" when the header is absent
ForwardedFor == {"", "203.0.113.7"}

\* request.headers.get("x-forwarded-for") || "unknown"
Identifier(header) == IF header = "" THEN "unknown" ELSE header

\* the clock advances in steps of half a window
ClockStepMs == RateLimitWindowMs \div 2

\* maxRequests of checkRateLimit: the default POST uses, and small limits
RateLimits == {DefaultMaxRequests} \cup 1..MaxRateLimit

\* Mutant: the limit is reached one request late.
LimitReachedLate(count, maxRequests) == count > maxRequests

\* record.count >= maxRequests
LimitReached(count, maxRequests) == count >= maxRequests

\* !record || now > record.resetTime
WindowExpired(map, identifier, now) ==
  identifier \notin DOMAIN map \/ now > map[identifier].resetTime

\* what checkRateLimit(identifier, maxRequests, windowMs) returns
CheckRateLimit(map, identifier, now, maxRequests) ==
  WindowExpired(map, identifier, now) \/ ~LimitReached(map[identifier].count, maxRequests)

\* rateLimitMap after checkRateLimit(identifier, maxRequests, windowMs)
RateLimitMapAfter(map, identifier, now, maxRequests, windowMs) ==
  IF WindowExpired(map, identifier, now)
    THEN [i \in DOMAIN map \cup {identifier} |->
            IF i = identifier THEN [count |-> 1, resetTime |-> now + windowMs] ELSE map[i]]
    ELSE IF LimitReached(map[identifier].count, maxRequests) THEN map
    ELSE [map EXCEPT ![identifier].count = @ + 1]

\* A request body: whether it parses as JSON, the length of its message and
\* the roles of its conversationHistory.
ChatBody(parses, messageLen, roles) ==
  [parses |-> parses, messageLen |-> messageLen, roles |-> roles]

ChatBodies ==
  {ChatBody(FALSE, 0, <<>>)}
    \cup {ChatBody(TRUE, n, roles) :
            n \in {0, 1, MaxMessageChars, MaxMessageChars + 1},
            roles \in {<<>>, <<"user", "assistant">>, <<"user", "system">>}}

\* Mutant: the message has no upper limit.
MessageNotEmpty(messageLen) == messageLen >= 1

\* z.string().min(1).max(2000)
MessageOk(messageLen) == messageLen >= 1 /\ messageLen <= MaxMessageChars

\* ChatRequestSchema.safeParse(body).success
SchemaAccepts(body) ==
  /\ MessageOk(body.messageLen)
  /\ \A i \in 1..Len(body.roles) : body.roles[i] \in {"user", "assistant"}

NoChatRequest == [identifier |-> "", body |-> ChatBody(FALSE, 0, <<>>), at |-> -1]

\* POST from its first statement to `await indexExists()`: 429 when the
\* limiter refuses, 500 from the catch block when request.json() throws, 400
\* when the schema refuses, otherwise the index check is called.
ChatPostArrives(header, body) ==
  LET identifier == Identifier(header)
      allowed == CheckRateLimit(rateLimitMap, identifier, pNow, pMaxRequests) IN
  /\ pHandled < MaxChatRequests
  /\ pHandled' = pHandled + 1
  /\ pRequest' = [identifier |-> identifier, body |-> body, at |-> pNow]
  /\ rateLimitMap' = RateLimitMapAfter(rateLimitMap, identifier, pNow, pMaxRequests,
                                       RateLimitWindowMs)
  /\ pAdmitted' = IF allowed
                    THEN pAdmitted \cup {[identifier |-> identifier, at |-> pNow,
                                          resetTime |-> rateLimitMap'[identifier].resetTime,
                                          count |-> rateLimitMap'[identifier].count]}
                    ELSE pAdmitted
  /\ pStatus' = IF ~allowed THEN 429
                ELSE IF ~body.parses THEN 500
                ELSE IF ~SchemaAccepts(body) THEN 400
                ELSE 0
  /\ pCalled' = (allowed /\ body.parses /\ SchemaAccepts(body))
  /\ UNCHANGED <<pNow, pMaxRequests>>

\* time passes
ClockAdvances ==
  /\ pNow < MaxClockSteps * ClockStepMs
  /\ pNow' = pNow + ClockStepMs
  /\ UNCHANGED <<pMaxRequests, rateLimitMap, pAdmitted, pRequest, pStatus, pCalled, pHandled>>

GateInit ==
  /\ pNow = 0
  /\ pMaxRequests = DefaultMaxRequests
  /\ rateLimitMap = <<>>
  /\ pAdmitted = {}
  /\ pRequest = NoChatRequest
  /\ pStatus = 0
  /\ pCalled = FALSE
  /\ pHandled = 0

\* the same with any of the limits
GateInitAnyLimit ==
  /\ pNow = 0
  /\ pMaxRequests \in RateLimits
  /\ rateLimitMap = <<>>
  /\ pAdmitted = {}
  /\ pRequest = NoChatRequest
  /\ pStatus = 0
  /\ pCalled = FALSE
  /\ pHandled = 0

(***************************************************************************)
(* truncateToTokenLimit on strings as sequences of characters.             *)
(***************************************************************************)
TruncateChars == {"a", "."}

TruncateTexts == SeqsUpTo(TruncateChars, MaxTruncateLen)

\* the limits under which a text of MaxTruncateLen characters is cut
TruncateLimits == (MaxTruncateTokens - 1)..MaxTruncateTokens

\* estimateTokens of a string of characters
EstimateTokensOf(text) == CeilDiv3_5(Len(text))

\* text.slice(0, n)
SliceTo(text, n) == SubSeq(text, 1, Min(n, Len(text)))

\* Mutant: the first period of the window.
IndexOfChar(text, ch) ==
  IF \E i \in 1..Len(text) : text[i] = ch
    THEN (CHOOSE i \in 1..Len(text) :
            text[i] = ch /\ \A j \in 1..(i - 1) : text[j] # ch) - 1
    ELSE -1

\* text.lastIndexOf(ch): the index from 0 of the last ch, -1 when there is none
LastIndexOfChar(text, ch) ==
  IF \E i \in 1..Len(text) : text[i] = ch
    THEN (CHOOSE i \in 1..Len(text) :
            text[i] = ch /\ \A j \in (i + 1)..Len(text) : text[j] # ch) - 1
    ELSE -1

\* truncateToTokenLimit(text, maxTokens)
TruncateString(text, maxTokens) ==
  LET maxChars == CharsFor(maxTokens)
      truncated == SliceTo(text, maxChars)
      lastPeriod == LastIndexOfChar(truncated, ".") IN
  IF EstimateTokensOf(text) <= maxTokens THEN text
  ELSE IF 5 * lastPeriod > 4 * maxChars THEN SliceTo(truncated, lastPeriod + 1)
  ELSE truncated \o <<".", ".", ".">>

\* truncateToTokenLimit(text, maxTokens) is called
TruncateCall(text, maxTokens) ==
  /\ tPc = "idle"
  /\ tPc' = "returned"
  /\ tText' = text
  /\ tMax' = maxTokens
  /\ tOut' = TruncateString(text, maxTokens)

TruncInit ==
  /\ tPc = "idle"
  /\ tText = <<>>
  /\ tMax = 0
  /\ tOut = <<>>

(***************************************************************************)
(* Concurrent initialization of the index: createIndex calls and           *)
(* POST /api/ingest/init requests of several callers, interleaved at       *)
(* their awaits.                                                           *)
(***************************************************************************)
Callers == 1..MaxCallers

InitVias == {"createIndex", "POST"}

\* createIndex of caller c has returned or thrown `result`: a direct call is
\* over; the handler goes on to getIndexStats() or answers 500 from its catch
CreateIndexOver(c, via, result) ==
  /\ initResult' = [initResult EXCEPT ![c] = result]
  /\ initPc' = [initPc EXCEPT ![c] =
                  IF via = "POST"
                    THEN IF result.kind = "error" THEN "responded" ELSE "stats"
                    ELSE IF result.kind = "error" THEN "thrown" ELSE "returned"]
  /\ initStatus' = [initStatus EXCEPT ![c] =
                      IF via = "POST" /\ result.kind = "error" THEN 500 ELSE @]

\* createIndex up to `await indexExists(name)`; getPineconeClient() throws
\* without a key
CreateIndexBegins(c, via) ==
  IF pineconeKeySet
    THEN /\ initPc' = [initPc EXCEPT ![c] = "listing"]
         /\ UNCHANGED <<initResult, initStatus>>
    ELSE CreateIndexOver(c, via, Threw(MissingPineconeKeyError))

\* a caller calls createIndex() or posts to /api/ingest/init, whose handler
\* begins with `await indexExists()`
InitializeBegins(c, via) ==
  /\ initPc[c] = "idle"
  /\ initVia' = [initVia EXCEPT ![c] = via]
  /\ IF via = "POST"
       THEN /\ initPc' = [initPc EXCEPT ![c] = "routeListing"]
            /\ UNCHANGED <<initResult, initStatus>>
       ELSE CreateIndexBegins(c, via)
  /\ UNCHANGED <<initService, initElapsed, initCreates, initServiceFailed>>

\* indexExists() of the handler settles: the index exists, so getIndexStats()
\* is awaited, or createIndex() is called
RouteListed(c, outcome) ==
  /\ initPc[c] = "routeListing"
  /\ initServiceFailed' = (initServiceFailed \/ outcome = "error")
  /\ IF IndexExistsAnswer(pineconeKeySet, outcome, initService)
       THEN /\ initPc' = [initPc EXCEPT ![c] = "stats"]
            /\ UNCHANGED <<initResult, initStatus>>
       ELSE CreateIndexBegins(c, "POST")
  /\ UNCHANGED <<initService, initVia, initElapsed, initCreates>>

\* indexExists(name) of createIndex settles: return if the index exists,
\* else send the create request
CreateListed(c, outcome) ==
  /\ initPc[c] = "listing"
  /\ initServiceFailed' = (initServiceFailed \/ outcome = "error")
  /\ IF IndexExists(outcome, initService)
       THEN /\ CreateIndexOver(c, initVia[c], Returned(<<>>))
            /\ UNCHANGED initCreates
       ELSE /\ initPc' = [initPc EXCEPT ![c] = "creating"]
            /\ initCreates' = initCreates + 1
            /\ UNCHANGED <<initResult, initStatus>>
  /\ UNCHANGED <<initService, initVia, initElapsed>>

\* client.createIndex settles: a rejection propagates; otherwise
\* waitForIndexReady starts and issues its first describeIndex
CreateSettled(c, outcome) ==
  /\ initPc[c] = "creating"
  /\ outcome \in CreateOutcomes(initService)
  /\ initServiceFailed' = (initServiceFailed \/ outcome = "error")
  /\ IF outcome = "created"
       THEN /\ initService' = "initializing"
            /\ initElapsed' = [initElapsed EXCEPT ![c] = 0]
            /\ IF WaitContinues(0, MaxWaitMs)
                 THEN /\ initPc' = [initPc EXCEPT ![c] = "describing"]
                      /\ UNCHANGED <<initResult, initStatus>>
                 ELSE CreateIndexOver(c, initVia[c], Threw(IndexTimeoutError))
       ELSE /\ CreateIndexOver(c, initVia[c],
                               Threw(IF outcome = "conflict" THEN IndexConflictError
                                                             ELSE IndexServiceError))
            /\ UNCHANGED <<initService, initElapsed>>
  /\ UNCHANGED <<initVia, initCreates>>

\* describeIndex settles after `latency` ms: return when ready, else start
\* the 2 s timer (a rejection is swallowed)
InitDescribed(c, latency, outcome) ==
  /\ initPc[c] = "describing"
  /\ outcome \in DescribeOutcomes(initService)
  /\ initElapsed' = [initElapsed EXCEPT ![c] = @ + latency]
  /\ initService' = IF outcome = "ready" THEN "ready" ELSE initService
  /\ IF StatusReady(outcome)
       THEN CreateIndexOver(c, initVia[c], Returned(<<>>))
       ELSE /\ initPc' = [initPc EXCEPT ![c] = "sleeping"]
            /\ UNCHANGED <<initResult, initStatus>>
  /\ UNCHANGED <<initVia, initCreates, initServiceFailed>>

\* the timer fires: test the loop condition, then poll again or give up
InitSlept(c) ==
  /\ initPc[c] = "sleeping"
  /\ initElapsed' = [initElapsed EXCEPT ![c] = @ + PollIntervalMs]
  /\ IF WaitContinues(initElapsed'[c], MaxWaitMs)
       THEN /\ initPc' = [initPc EXCEPT ![c] = "describing"]
            /\ UNCHANGED <<initResult, initStatus>>
       ELSE CreateIndexOver(c, initVia[c], Threw(IndexTimeoutError))
  /\ UNCHANGED <<initService, initVia, initCreates, initServiceFailed>>

\* getIndexStats() of the handler settles and the handler answers
InitStatsSettled(c, ok) ==
  /\ initPc[c] = "stats"
  /\ initPc' = [initPc EXCEPT ![c] = "responded"]
  /\ initStatus' = [initStatus EXCEPT ![c] = IF ok THEN 200 ELSE 500]
  /\ initServiceFailed' = (initServiceFailed \/ ~ok)
  /\ UNCHANGED <<initService, initVia, initElapsed, initResult, initCreates>>

CallersInit ==
  /\ initService = "absent"
  /\ initPc = [c \in Callers |-> "idle"]
  /\ initVia = [c \in Callers |-> "createIndex"]
  /\ initElapsed = [c \in Callers |-> 0]
  /\ initResult = [c \in Callers |-> NoResult]
  /\ initStatus = [c \in Callers |-> 0]
  /\ initCreates = 0
  /\ initServiceFailed = FALSE

(***************************************************************************)
(* SpecEmbed: one call of generateEmbedding on any text.                   *)
(***************************************************************************)
EmbedCall ==
  /\ ePc = "idle"
  /\ \E text \in Texts : GenerateEmbeddingEnter(text)
  /\ UNCHANGED outsideEmbed

EmbedSettle ==
  /\ \E outcome \in ProviderOutcomes : GenerateEmbeddingSettle(outcome)
  /\ UNCHANGED outsideEmbed

EmbedResume ==
  /\ GenerateEmbeddingResume
  /\ UNCHANGED outsideEmbed

InitEmbed == EmbInit /\ RagInit /\ ChatInit /\ BatInit /\ IxReady /\ UpInit /\ IngestInit /\ ChunkInit /\ SummInit /\ GateInit /\ TruncInit /\ CallersInit

NextEmbed == EmbedCall \/ EmbedSettle \/ EmbedResume

SpecEmbed == InitEmbed /\ [][NextEmbed]_vars

(***************************************************************************)
(* SpecRag: one query through queryKnowledgeBase or                        *)
(* queryKnowledgeBaseStream; embedQuery(query) is generateEmbedding(query).*)
(***************************************************************************)
QueryKnowledgeBase ==
  /\ rPc = "idle"
  /\ \E query \in Texts, history \in Histories :
       RagEnter("queryKnowledgeBase", query, history)

QueryKnowledgeBaseStream ==
  /\ rPc = "idle"
  /\ \E query \in Texts, history \in Histories :
       RagEnter("queryKnowledgeBaseStream", query, history)

KbEmbedded == RagEmbedded("queryKnowledgeBase")

KbsEmbedded == RagEmbedded("queryKnowledgeBaseStream")

KbRetrievedAny == \E outcome \in RetrievalOutcomes : KbRetrieved(outcome)

KbsRetrievedAny == \E outcome \in RetrievalOutcomes : KbsRetrieved(outcome)

KbGeneratedAny == \E outcome \in GenerationOutcomes : KbGenerated(outcome)

KbsCreatedAny == \E ok \in BOOLEAN : KbsCreated(ok)

KbsChunkAny == \E content \in FragmentContents : KbsChunk(content)

InitRag == EmbInit /\ RagInit /\ ChatInit /\ BatInit /\ IxReady /\ UpInit /\ IngestInit /\ ChunkInit /\ SummInit /\ GateInit /\ TruncInit /\ CallersInit

NextRag ==
  \/ QueryKnowledgeBase
  \/ QueryKnowledgeBaseStream
  \/ (rPc = "EMBEDDING_QUERY" /\ EmbedSettle)
  \/ (rPc = "EMBEDDING_QUERY" /\ EmbedResume)
  \/ KbEmbedded
  \/ KbRetrievedAny
  \/ KbAssemble
  \/ KbGeneratedAny
  \/ KbsEmbedded
  \/ KbsRetrievedAny
  \/ KbsAssemble
  \/ KbsCreatedAny
  \/ KbsChunkAny
  \/ KbsEnd
  \/ KbsError

SpecRag == InitRag /\ [][NextRag]_vars

(***************************************************************************)
(* SpecChat: one submission of the chat client, answered by POST /api/chat *)
(* through queryKnowledgeBaseStream.  ChatRequestSchema admits a message   *)
(* of at least one character and turns with role user or assistant.        *)
(***************************************************************************)
ChatMessages == {t \in SeqsUpTo(Chars, MaxChatMessageLen) : Len(t) >= 1}

ChatHistories == {MkHistory(n) : n \in 0..MaxChatHistory}

rStreamFrame ==
  <<rFn, rPc, rQuery, rHistory, rQueryVector, rRetrieval, rCitations, rMessages, rGeneration,
    rEmitted, rReturn, rCalls, rStages>>

ChatSubmit ==
  /\ HandleSubmit
  /\ UNCHANGED <<ragVars, outsideChat>>

ChatResponse ==
  /\ ChatResponds
  /\ UNCHANGED <<rStreamFrame, outsideChat>>

ClientResponse ==
  /\ ClientReceivesResponse
  /\ UNCHANGED <<ragVars, outsideChat>>

ClientRead ==
  /\ ClientReads
  /\ UNCHANGED <<ragVars, outsideChat>>

ClientCancel ==
  /\ ClientCancels
  /\ UNCHANGED <<rStreamFrame, outsideChat>>

ChatIndexCheck ==
  /\ \E outcome \in ListOutcomes : ChatIndexChecked(outcome)
  /\ UNCHANGED <<ragVars, outsideChat>>

ChatQuery ==
  /\ rPc = "idle"
  /\ hPc = "querying"
  /\ \E message \in ChatMessages, conversationHistory \in ChatHistories :
       RagEnter("queryKnowledgeBaseStream", message, conversationHistory)

InitChat == EmbInit /\ RagInit /\ ChatInit /\ BatInit /\ IxInit /\ UpInit /\ IngestInit /\ ChunkInit /\ SummInit /\ GateInit /\ TruncInit /\ CallersInit

NextChat ==
  \/ ChatSubmit
  \/ ChatIndexCheck
  \/ ChatQuery
  \/ (rPc = "EMBEDDING_QUERY" /\ EmbedSettle)
  \/ (rPc = "EMBEDDING_QUERY" /\ EmbedResume)
  \/ KbsEmbedded
  \/ KbsRetrievedAny
  \/ KbsAssemble
  \/ KbsCreatedAny
  \/ KbsChunkAny
  \/ KbsEnd
  \/ KbsError
  \/ ChatResponse
  \/ ClientResponse
  \/ ClientRead
  \/ ClientCancel

SpecChat == InitChat /\ [][NextChat]_vars

(***************************************************************************)
(* SpecChunk: one call of chunkText on any text with any configuration.    *)
(***************************************************************************)
ChunkCall ==
  /\ kPc = "idle"
  /\ \E text \in ChunkerTexts, config \in ChunkConfigs : ChunkTextCall(text, config)
  /\ UNCHANGED outsideChunk

InitChunk ==
  /\ EmbInit /\ RagInit /\ ChatInit /\ BatInit /\ IxReady /\ UpInit /\ IngestInit /\ ChunkInit /\ SummInit /\ GateInit /\ TruncInit /\ CallersInit
  /\ apiKeySet

NextChunk == ChunkCall

SpecChunk == InitChunk /\ [][NextChunk]_vars

(***************************************************************************)
(* SpecSummarize: one call of summarizeChatMessage or                      *)
(* summarizeLongDocument.                                                  *)
(***************************************************************************)
SummarizeChatMessage ==
  /\ sPc = "idle"
  /\ \E message \in SummarizerTexts, maxOutputTokens \in OutputCaps :
       SummarizeEnter("summarizeChatMessage", message, maxOutputTokens)
  /\ UNCHANGED outsideSumm

SummarizeLongDocument ==
  /\ sPc = "idle"
  /\ \E text \in SummarizerTexts, maxTokens \in OutputCaps :
       SummarizeEnter("summarizeLongDocument", text, maxTokens)
  /\ UNCHANGED outsideSumm

SinglePassSettle ==
  /\ \E outcome \in SummaryOutcomes : SinglePassSettles(outcome)
  /\ UNCHANGED outsideSumm

ChunkSummarySettle ==
  /\ \E i \in 1..Len(sChunks), outcome \in SummaryOutcomes : ChunkSummarySettles(i, outcome)
  /\ UNCHANGED outsideSumm

FinalSummarySettle ==
  /\ \E outcome \in SummaryOutcomes : FinalSummarySettles(outcome)
  /\ UNCHANGED outsideSumm

InitSummarize ==
  /\ EmbInit /\ RagInit /\ ChatInit /\ BatInit /\ IxReady /\ UpInit /\ IngestInit /\ ChunkInit
  /\ SummInit /\ GateInit /\ TruncInit /\ CallersInit /\ apiKeySet

NextSummarize ==
  \/ SummarizeChatMessage
  \/ SummarizeLongDocument
  \/ SinglePassSettle
  \/ ChunkSummarySettle
  \/ FinalSummarySettle

SpecSummarize == InitSummarize /\ [][NextSummarize]_vars

(***************************************************************************)
(* SpecGate: requests arriving at POST /api/chat over time.                *)
(***************************************************************************)
ChatPost ==
  /\ \E header \in ForwardedFor, body \in ChatBodies : ChatPostArrives(header, body)
  /\ UNCHANGED outsideGate

ClockAdvance ==
  /\ ClockAdvances
  /\ UNCHANGED outsideGate

InitGate ==
  /\ EmbInit /\ RagInit /\ ChatInit /\ BatInit /\ IxReady /\ UpInit /\ IngestInit /\ ChunkInit
  /\ SummInit /\ GateInitAnyLimit /\ TruncInit /\ CallersInit /\ apiKeySet

NextGate ==
  \/ ChatPost
  \/ ClockAdvance

SpecGate == InitGate /\ [][NextGate]_vars

(***************************************************************************)
(* SpecTruncate: one call of truncateToTokenLimit on any text.             *)
(***************************************************************************)
Truncate ==
  /\ tPc = "idle"
  /\ \E text \in TruncateTexts, maxTokens \in TruncateLimits :
       TruncateCall(text, maxTokens)
  /\ UNCHANGED outsideTrunc

InitTruncate ==
  /\ EmbInit /\ RagInit /\ ChatInit /\ BatInit /\ IxReady /\ UpInit /\ IngestInit /\ ChunkInit
  /\ SummInit /\ GateInit /\ TruncInit /\ CallersInit /\ apiKeySet

NextTruncate == Truncate

SpecTruncate == InitTruncate /\ [][NextTruncate]_vars

(***************************************************************************)
(* Specification: concurrent initialization of the index.                  *)
(***************************************************************************)
InitializeCall ==
  /\ \E c \in Callers, via \in InitVias : InitializeBegins(c, via)
  /\ UNCHANGED outsideInitialize

InitializeRouteListed ==
  /\ \E c \in Callers, outcome \in ListOutcomes : RouteListed(c, outcome)
  /\ UNCHANGED outsideInitialize

InitializeListed ==
  /\ \E c \in Callers, outcome \in ListOutcomes : CreateListed(c, outcome)
  /\ UNCHANGED outsideInitialize

InitializeCreateSettles ==
  /\ \E c \in Callers, outcome \in {"created", "conflict", "error"} : CreateSettled(c, outcome)
  /\ UNCHANGED outsideInitialize

InitializeDescribed ==
  /\ \E c \in Callers, latency \in Latencies, outcome \in {"ready", "pending", "error"} :
       InitDescribed(c, latency, outcome)
  /\ UNCHANGED outsideInitialize

InitializeSlept ==
  /\ \E c \in Callers : InitSlept(c)
  /\ UNCHANGED outsideInitialize

InitializeStats ==
  /\ \E c \in Callers, ok \in BOOLEAN : InitStatsSettled(c, ok)
  /\ UNCHANGED outsideInitialize

InitInitialize ==
  /\ EmbInit /\ RagInit /\ ChatInit /\ BatInit /\ IxInit /\ UpInit /\ IngestInit /\ ChunkInit
  /\ SummInit /\ GateInit /\ TruncInit /\ CallersInit /\ apiKeySet

NextInitialize ==
  \/ InitializeCall
  \/ InitializeRouteListed
  \/ InitializeListed
  \/ InitializeCreateSettles
  \/ InitializeDescribed
  \/ InitializeSlept
  \/ InitializeStats

SpecInitialize == InitInitialize /\ [][NextInitialize]_vars

(***************************************************************************)
(* SpecBatch: one call of batchGenerateEmbeddings.                         *)
(***************************************************************************)
BatchCall ==
  /\ bPc = "idle"
  /\ \E texts \in SeqsUpTo(BatchTexts, MaxTexts),
        batchSize \in 1..MaxBatchSize,
        concurrency \in 1..MaxConcurrency :
       BatchGenerateEmbeddings(texts, batchSize, concurrency)
  /\ UNCHANGED outsideBatch

BatchSettle ==
  /\ \E k \in 1..MaxConcurrency, ok \in BOOLEAN : BatchCallSettles(k, ok)
  /\ UNCHANGED outsideBatch

BatchItemSettle ==
  /\ \E k \in 1..MaxConcurrency, j \in 1..MaxBatchSize : FallbackItemSettles(k, j)
  /\ UNCHANGED outsideBatch

BatchGroupResolves ==
  /\ GroupResolves
  /\ UNCHANGED outsideBatch

InitBatch == EmbInit /\ RagInit /\ ChatInit /\ BatInit /\ IxReady /\ UpInit /\ IngestInit /\ ChunkInit /\ SummInit /\ GateInit /\ TruncInit /\ CallersInit

NextBatch == BatchCall \/ BatchSettle \/ BatchItemSettle \/ BatchGroupResolves

SpecBatch == InitBatch /\ [][NextBatch]_vars

(***************************************************************************)
(* SpecIndex: sequential createIndex calls against one vector service.     *)
(* An awaited service call settles and a timer fires, hence the fairness.  *)
(***************************************************************************)
IndexCall ==
  /\ CreateIndexEnter
  /\ UNCHANGED outsideIndex

IndexListed ==
  /\ \E outcome \in ListOutcomes : IndexExistsSettles(outcome)
  /\ UNCHANGED outsideIndex

IndexCreateSettles ==
  /\ \E outcome \in {"created", "conflict", "error"} : CreateRequestSettles(outcome)
  /\ UNCHANGED outsideIndex

IndexDescribed ==
  /\ \E latency \in Latencies, outcome \in {"ready", "pending", "error"} :
       DescribeSettles(latency, outcome)
  /\ UNCHANGED outsideIndex

IndexSlept ==
  /\ SleepEnds
  /\ UNCHANGED outsideIndex

InitIndex == EmbInit /\ RagInit /\ ChatInit /\ BatInit /\ IxInit /\ UpInit /\ IngestInit /\ ChunkInit /\ SummInit /\ GateInit /\ TruncInit /\ CallersInit /\ apiKeySet

NextIndex == IndexCall \/ IndexListed \/ IndexCreateSettles \/ IndexDescribed \/ IndexSlept

SpecIndex ==
  /\ InitIndex
  /\ [][NextIndex]_vars
  /\ WF_vars(IndexListed)
  /\ WF_vars(IndexCreateSettles)
  /\ WF_vars(IndexDescribed)
  /\ WF_vars(IndexSlept)

(***************************************************************************)
(* SpecUpsert: one call of upsertVectors on any list of records.           *)
(***************************************************************************)
\* records to upsert: two ids, two vectors
SomeRecords ==
  { VectorRecord(<<id>>, <<v>>, ChunkMetadata("t", "u", <<v>>, 0, <<id>>), <<id>>) :
      id \in {"v1", "v2"}, v \in {"x", "y"} }

UpsertCall ==
  /\ uPc = "idle"
  /\ \E vectors \in SeqsUpTo(SomeRecords, MaxVectors), batchSize \in 1..MaxUpsertBatch :
       UpsertVectorsEnter(vectors, batchSize)
  /\ UNCHANGED outsideUpsert

UpsertSettle ==
  /\ \E outcome \in UpsertOutcomes : UpsertSettles(outcome)
  /\ UNCHANGED outsideUpsert

InitUpsert ==
  /\ EmbInit /\ RagInit /\ ChatInit /\ BatInit /\ IxInit /\ UpInit /\ IngestInit /\ ChunkInit /\ SummInit /\ GateInit /\ TruncInit /\ CallersInit
  /\ apiKeySet /\ ixService = "ready"

NextUpsert == UpsertCall \/ UpsertSettle

SpecUpsert == InitUpsert /\ [][NextUpsert]_vars

(***************************************************************************)
(* SpecIngest: files uploaded one after another to POST /api/ingest/upload.*)
(***************************************************************************)
Upload ==
  /\ gPc = "idle"
  /\ \E file \in Files, tick \in 1..MaxTickMs : UploadPost(file, tick)
  /\ UNCHANGED outsideIngest

UploadEmbeddingsSettle ==
  /\ \E ok \in BOOLEAN : UploadEmbedded(ok)
  /\ UNCHANGED outsideIngest

UploadUpsertSettle ==
  /\ \E outcome \in UpsertOutcomes : UploadUpsertSettles(outcome)
  /\ UNCHANGED outsideIngest

UploadStats ==
  /\ \E ok \in BOOLEAN : UploadStatsSettle(ok)
  /\ UNCHANGED outsideIngest

InitIngest == EmbInit /\ RagInit /\ ChatInit /\ BatInit /\ IxReady /\ UpInit /\ IngestInit /\ ChunkInit /\ SummInit /\ GateInit /\ TruncInit /\ CallersInit /\ apiKeySet

IngestBatch ==
  /\ gPc = "idle"
  /\ \E file \in {f \in Files : f.name.ext = "csv"}, outcome \in ListOutcomes :
       IngestPost(file, outcome)
  /\ UNCHANGED outsideIngest

IngestEmbeddingsSettle ==
  /\ \E ok \in BOOLEAN : IngestEmbedded(ok)
  /\ UNCHANGED outsideIngest

IngestUpsertSettle ==
  /\ \E outcome \in UpsertOutcomes : IngestUpsertSettles(outcome)
  /\ UNCHANGED outsideIngest

NextIngest ==
  \/ Upload
  \/ UploadEmbeddingsSettle
  \/ UploadUpsertSettle
  \/ UploadStats
  \/ IngestBatch
  \/ IngestEmbeddingsSettle
  \/ IngestUpsertSettle

SpecIngest == InitIngest /\ [][NextIngest]_vars

(***************************************************************************)
(* Properties of generateEmbedding (SpecEmbed).                            *)
(***************************************************************************)
CallsIn(log) == SelectSeq(log, LAMBDA e : e.ev = "call")

WaitsIn(log) == SelectSeq(log, LAMBDA e : e.ev = "wait")

WaitMs(log) == [k \in 1..Len(WaitsIn(log)) |-> WaitsIn(log)[k].ms]

IsPrefix(p, s) == Len(p) <= Len(s) /\ SubSeq(s, 1, Len(p)) = p

Last(s) == s[Len(s)]

\* a provider outcome that is a failure other than the invalid-request error
TransientFailure(outcome) ==
  outcome.kind = "empty" \/ (outcome.kind = "error" /\ outcome.error = RateLimitError)

\* the cause the function has caught for a failed outcome
CauseOf(outcome) ==
  IF outcome.kind = "empty" THEN NoEmbeddingReturnedError.message ELSE outcome.error.message

\* C7: a transient provider failure is retried up to 3 times after the
\* initial attempt, the waits before retries 1, 2, 3 being 1000, 2000 and
\* 4000 ms; the call returns the embedding as soon as an attempt succeeds; and
\* once every attempt has failed it throws an error that carries the last cause.
C7_RetryWithBackoff ==
  /\ IsPrefix(WaitMs(eLog), <<1000, 2000, 4000>>)
  /\ \A k \in 1..Len(eLog) :
       eLog[k].ev = (IF k % 2 = 1 THEN "call" ELSE "wait")
  /\ \A k \in 1..Len(eOutcomes) :
       /\ (k < Len(eOutcomes) => TransientFailure(eOutcomes[k]))
       /\ (TransientFailure(eOutcomes[k]) /\ k <= 3 /\ k = Len(eOutcomes)
             => /\ ePc \in {"backoff", "call"}
                /\ Len(WaitsIn(eLog)) = k)
  /\ (eOutcomes # <<>> /\ Last(eOutcomes).kind = "ok"
        => /\ ePc = "returned"
           /\ eResult = Returned(EmbeddingOf(eText))
           /\ Len(CallsIn(eLog)) = Len(eOutcomes))
  /\ (ePc = "returned" => eOutcomes # <<>> /\ Last(eOutcomes).kind = "ok")
  /\ (Len(eOutcomes) = 4 /\ TransientFailure(eOutcomes[4])
        => /\ ePc = "thrown"
           /\ eResult.kind = "error"
           /\ eResult.error.message = RetriesExhaustedPrefix \o CauseOf(eOutcomes[4])
           /\ WaitMs(eLog) = <<1000, 2000, 4000>>)

C7_Witness ==
  /\ ePc = "thrown"
  /\ Len(eOutcomes) = 4
  /\ TransientFailure(eOutcomes[4])
  /\ WaitMs(eLog) = <<1000, 2000, 4000>>

\* C8 (as claimed): one generateEmbedding call issues at most 3 provider calls.
C8_AtMostThreeCalls == Len(CallsIn(eLog)) <= 3

\* C8 (amended): one generateEmbedding call issues at most 4 provider calls,
\* the initial attempt and 3 retries.
C8_AtMostFourCalls ==
  /\ Len(CallsIn(eLog)) <= 4
  /\ Len(CallsIn(eLog)) <= 1 + Len(WaitsIn(eLog))
  /\ Len(WaitsIn(eLog)) <= 3

C8_Witness == Len(CallsIn(eLog)) = 4 /\ ePc = "thrown"

AllWhitespace(t) == \A i \in 1..Len(t) : t[i] = " "

\* C10: generateEmbedding on an empty or whitespace-only text throws the
\* empty-input error at once: no provider call, no wait, no retry.
C10_BlankTextFailsAtOnce ==
  (ePc # "idle" /\ AllWhitespace(eText))
    => /\ ePc = "thrown"
       /\ eResult = Threw(EmptyTextError)
       /\ eLog = <<>>
       /\ eOutcomes = <<>>

C10_Witness == ePc = "thrown" /\ eText = <<" ", " ">> /\ apiKeySet

\* The outcomes batchGenerateEmbeddings assumes of generateEmbedding are the
\* ones the call can end with.
EmbedResultsCovered ==
  ePc \in {"returned", "thrown"} => eResult \in GenerateEmbeddingResults(eText)

(***************************************************************************)
(* Properties of the orchestrator (SpecRag).                               *)
(***************************************************************************)
ZeroMatches == rRetrieval.kind = "ok" /\ Len(rRetrieval.matches) = 0

\* C1: in both functions, when the vector query returns zero matches the
\* generative model is never called and the fixed no-information message is
\* returned with an empty citation list (retrievedChunks = 0 when not streaming).
C1_ZeroMatchesShortCircuit ==
  ZeroMatches
    => /\ rCalls.generate = 0
       /\ rGeneration = "none"
       /\ rMessages = <<>>
       /\ rEmitted = <<>>
       /\ rPc = "DONE"
       /\ rReturn.kind = "value"
       /\ rReturn.citations = <<>>
       /\ (rFn = "queryKnowledgeBase"
             => /\ rReturn.answer = NoInfoAnswer
                /\ rReturn.retrievedChunks = 0
                /\ ~rReturn.hasStream)
       /\ (rFn = "queryKnowledgeBaseStream"
             => /\ rReturn.hasStream
                /\ rStream = [state |-> "closed", chunks |-> <<NoInfoStreamMessage>>])

C1_Witness == ZeroMatches /\ rFn = "queryKnowledgeBaseStream" /\ rPc = "DONE"

StageOrder == <<"EMBEDDING_QUERY", "RETRIEVING", "ASSEMBLING_PROMPT", "GENERATING", "DONE">>

ShortCircuitOrder == <<"EMBEDDING_QUERY", "RETRIEVING", "DONE">>

\* the stages entered, without a final FAILED
StagesBeforeFailure ==
  IF rStages # <<>> /\ Last(rStages) = "FAILED"
    THEN SubSeq(rStages, 1, Len(rStages) - 1) ELSE rStages

\* C2: a query passes through EMBEDDING_QUERY, RETRIEVING, ASSEMBLING_PROMPT,
\* GENERATING, DONE in this order, no stage re-entered or skipped except by
\* the zero-result short-circuit; the vector index is queried only with the
\* embedding obtained for the query, and the generative model is called only
\* after a retrieval of at least one record and the assembly of the prompt.
C2_StageOrder ==
  /\ \/ IsPrefix(rStages, StageOrder)
     \/ (rStages = ShortCircuitOrder /\ ZeroMatches)
     \/ /\ rStages # <<>>
        /\ Last(rStages) = "FAILED"
        /\ StagesBeforeFailure # <<>>
        /\ IsPrefix(StagesBeforeFailure, SubSeq(StageOrder, 1, 4))
  /\ (rStages # <<>> => rPc = Last(rStages))
  /\ (rStages = <<>> => rPc = "idle")
  /\ (ZeroMatches => rStages = ShortCircuitOrder)
  /\ (rCalls.query > 0
        => /\ eResult.kind = "ok"
           /\ rQueryVector = EmbeddingOf(rQuery))
  /\ (rCalls.generate > 0
        => /\ rRetrieval.kind = "ok"
           /\ Len(rRetrieval.matches) >= 1
           /\ rMessages = BuildMessages(rQuery, rHistory, rRetrieval.matches)
           /\ IsPrefix(SubSeq(StageOrder, 1, 4), rStages))

C2_Witness == rStages = StageOrder /\ rFn = "queryKnowledgeBaseStream"

\* C3: the orchestrator retries nothing: the embedding step, the vector query
\* and the generative model are each invoked at most once per query, and a
\* failed stage ends the query with an error for the caller, no later stage
\* having been invoked.
C3_NoOrchestratorRetry ==
  /\ rCalls.embed <= 1
  /\ rCalls.query <= 1
  /\ rCalls.generate <= 1
  /\ (eResult.kind = "error" /\ rPc # "EMBEDDING_QUERY"
        => /\ rPc = "FAILED"
           /\ rReturn = Rejected(eResult.error)
           /\ rCalls.query = 0
           /\ rCalls.generate = 0)
  /\ (rRetrieval.kind = "error"
        => /\ rPc = "FAILED"
           /\ rReturn = Rejected(rRetrieval.error)
           /\ rCalls.generate = 0)
  /\ (rGeneration = "error"
        => /\ rPc = "FAILED"
           /\ \/ rReturn.kind = "throw"
              \/ (rReturn.hasStream /\ rStream.state = "errored"))
  /\ (rPc = "FAILED"
        => eResult.kind = "error" \/ rRetrieval.kind = "error" \/ rGeneration = "error")

C3_Witness == rRetrieval.kind = "error" /\ rPc = "FAILED" /\ rCalls.query = 1

(***************************************************************************)
(* Properties of batchGenerateEmbeddings (SpecBatch).                      *)
(***************************************************************************)
NonBlank(t) == \E i \in 1..Len(t) : t[i] # " "

RECURSIVE EmbeddingsOfNonBlank(_)
\* the embeddings of the non-blank texts, in input order
EmbeddingsOfNonBlank(texts) ==
  IF texts = <<>> THEN <<>>
  ELSE (IF NonBlank(Head(texts)) THEN <<EmbeddingOf(Head(texts))>> ELSE <<>>)
       \o EmbeddingsOfNonBlank(Tail(texts))

\* two batch calls settled in the opposite order of their batches
SettledOutOfOrder ==
  \E a, b \in 1..Len(bSettled) : a < b /\ bSettled[a] > bSettled[b]

\* C4: the embeddings are returned in the order of the input texts, whatever
\* the order in which the batch calls and the fallback calls complete: the
\* output is the embeddings of the non-blank texts, each of its own text, in
\* input order.
C4_BatchOrderPreserved ==
  bPc = "done"
    => /\ bResult.kind = "ok"
       /\ bResult.value = EmbeddingsOfNonBlank(bTexts)

C4_Witness ==
  /\ bPc = "done"
  /\ SettledOutOfOrder
  /\ bFellBack # {}
  /\ Len(bResult.value) >= 2
  /\ bResult.value[1] # bResult.value[2]

\* C5 (as claimed): no provider call is made for a blank text, and output
\* entry i is the embedding of input text i for every non-blank input i, so
\* that outputs map back to input positions.
C5_PositionsPreserved ==
  /\ \A input \in bCalled : \A j \in 1..Len(input) : NonBlank(input[j])
  /\ (bPc = "done"
        => \A i \in 1..Len(bTexts) :
             NonBlank(bTexts[i])
               => /\ i <= Len(bResult.value)
                  /\ bResult.value[i] = EmbeddingOf(bTexts[i]))

\* the (0-based) indices of the items whose own generateEmbedding call failed
FailedItems ==
  UNION { {bTasks[k].batch[j].index :
             j \in {j \in 1..Len(bTasks[k].batch) : bTasks[k].items[j].kind = "error"}} :
          k \in 1..Len(bTasks) }

\* C6 (as claimed): after a batch call has failed, a text that cannot be
\* embedded does not fail its neighbours: every other non-blank text has its
\* embedding in the output.
C6_NeighboursSurvive ==
  (bPc \in {"done", "failed"} /\ bFellBack # {})
    => \A i \in 1..Len(bTexts) :
         (NonBlank(bTexts[i]) /\ (i - 1) \notin FailedItems)
           => /\ bResult.kind = "ok"
              /\ \E k \in 1..Len(bResult.value) : bResult.value[k] = EmbeddingOf(bTexts[i])

(***************************************************************************)
(* Calls in flight during batchGenerateEmbeddings (SpecBatch).             *)
(***************************************************************************)
\* tasks whose batch call (one embeddings.create for the whole batch) is pending
BatchCallsInFlight == Cardinality({k \in 1..Len(bTasks) : bTasks[k].state = "calling"})

\* the individual generateEmbedding calls of task k that are pending at the
\* provider: Promise.all(batch.map(generateEmbedding)) starts them all at
\* once, and they stay in flight after a sibling has rejected
ItemCallsInFlight(k) ==
  IF apiKeySet /\ bTasks[k].state \in {"fallback", "rejected"}
    THEN Cardinality({j \in 1..Len(bTasks[k].batch) : bTasks[k].items[j].kind = "none"})
    ELSE 0

\* provider calls of task k that are pending
TaskCallsInFlight(k) ==
  (IF bTasks[k].state = "calling" THEN 1 ELSE 0) + ItemCallsInFlight(k)

RECURSIVE SumTo(_, _)
SumTo(f, n) == IF n = 0 THEN 0 ELSE f[n] + SumTo(f, n - 1)

\* all provider calls pending
ExternalCallsInFlight ==
  SumTo([k \in 1..Len(bTasks) |-> TaskCallsInFlight(k)], Len(bTasks))

PastExistenceCheck == ixPc \in {"creating", "describing", "sleeping", "returned", "thrown"}

\* C12 (as claimed): a createIndex call that begins while the index exists
\* issues no create request and returns successfully.
C12_CreateIndexIdempotent ==
  (pineconeKeySet /\ ixExisted /\ PastExistenceCheck)
    => (ixRequested = 0 /\ ixPc = "returned")

\* the call has finished after sending a create request
FinishedAfterCreate == ixPc \in {"returned", "thrown"} /\ ixRequested > 0

C13_Safety ==
  /\ (FinishedAfterCreate /\ ixResult.kind = "ok")
       => (ixReported = "ready" /\ ixService = "ready" /\ ixPollStart < MaxWaitMs)
  /\ (FinishedAfterCreate /\ ixResult.error = IndexTimeoutError)
       => (ixReported # "ready" /\ ixElapsed >= MaxWaitMs)
  /\ (FinishedAfterCreate /\ ixPolls > 0)
       => ixResult.kind = "ok" \/ ixResult.error = IndexTimeoutError
  /\ ixPc \in {"describing", "sleeping"}
       => (ixRequested = 1 /\ ixPollStart < MaxWaitMs)
  /\ ixPc = "describing" => ixPolls = ixSleeps + 1
  /\ ixSleeps * PollIntervalMs <= ixElapsed
  /\ ixElapsed <= ixSleeps * PollIntervalMs + ixPolls * MaxLatencyMs
  /\ ixPolls <= MaxWaitMs \div PollIntervalMs

\* C13: once the create request is accepted createIndex polls the index
\* status, 2 s after each answer that is not "ready"; it returns only when
\* the last answer was "ready" and that poll began within the 60 s wait, it
\* throws the timeout error once 60 s have passed without a "ready" answer,
\* it issues at most 30 polls, and it always finishes.
C13_BoundedWaitForReady ==
  /\ []C13_Safety
  /\ (ixPc = "creating") ~> (ixPc \in {"returned", "thrown"})

\* createIndex returned after it had to wait at least once
C13_Witness ==
  /\ FinishedAfterCreate
  /\ ixResult.kind = "ok"
  /\ ixSleeps > 0

\* the bounded wait ran out
C13_TimedOut == FinishedAfterCreate /\ ixResult.error = IndexTimeoutError

(***************************************************************************)
(* Properties of upsertVectors (SpecUpsert).                               *)
(***************************************************************************)
\* the k-th of the consecutive batches of `size` records of `vectors`
NthBatch(vectors, size, k) == SubSeq(vectors, (k - 1) * size + 1, Min(k * size, Len(vectors)))

BatchCount(vectors, size) == (Len(vectors) + size - 1) \div size

\* index.upsert calls that have resolved
UpsertsResolved == Cardinality({k \in 1..Len(uOutcomes) : uOutcomes[k] = NoError})

\* C14: upsertVectors hands index.upsert the consecutive batches of
\* batchSize records in input order, one at a time; a rejected batch is the
\* last one sent, its error is thrown unchanged, and the index then holds
\* what it held before the call with the earlier batches written over it.
C14_UpsertBatchesNoRollback ==
  /\ \A k \in 1..Len(uSent) : uSent[k] = NthBatch(uVectors, uBatchSize, k)
  /\ Len(uSent) <= BatchCount(uVectors, uBatchSize)
  /\ Len(uSent) = Len(uOutcomes) + (IF uPc = "upserting" THEN 1 ELSE 0)
  /\ \A k \in 1..(Len(uOutcomes) - 1) : uOutcomes[k] = NoError
  /\ uStore = UpsertInto(uStoreBefore,
                         SubSeq(uVectors, 1, Min(UpsertsResolved * uBatchSize, Len(uVectors))))
  /\ (uPc = "thrown" /\ uSent # <<>>)
       => /\ Last(uOutcomes) # NoError
          /\ uResult = Threw(Last(uOutcomes))
  /\ (uPc = "returned" /\ uVectors # <<>>)
       => /\ Len(uSent) = BatchCount(uVectors, uBatchSize)
          /\ UpsertsResolved = Len(uSent)

\* the second of three batches failed after the first was written
C14_Witness ==
  /\ uPc = "thrown"
  /\ Len(uOutcomes) = 2
  /\ BatchCount(uVectors, uBatchSize) = 3
  /\ uStore # uStoreBefore

(***************************************************************************)
(* Properties of ingestion (SpecIngest).                                   *)
(***************************************************************************)
\* requests k and k + 1 uploaded the same file and both succeeded
SameFileTwice(k) ==
  /\ k + 1 <= Len(gLog)
  /\ gLog[k].route = gLog[k + 1].route
  /\ gLog[k].file = gLog[k + 1].file
  /\ gLog[k].status = 200
  /\ gLog[k + 1].status = 200

\* C15 (as claimed): ingesting the same document a second time yields the
\* same set of vectorIds and leaves the index content as the first
\* ingestion left it.
C15_ReingestIdempotent ==
  \A k \in 1..Len(gLog) :
    SameFileTwice(k) => /\ gLog[k + 1].ids = gLog[k].ids
                        /\ gLog[k + 1].store = gLog[k].store

\* the same for CSV files only
ReingestCsvIdempotent ==
  \A k \in 1..Len(gLog) :
    (SameFileTwice(k) /\ gLog[k].file.ext = "csv")
      => /\ gLog[k + 1].ids = gLog[k].ids
         /\ gLog[k + 1].store = gLog[k].store

\* C16 (as claimed): records written under the same vectorId belong to the
\* same document.
C16_VectorIdUnique ==
  \A a \in gEver, b \in gEver : a.id = b.id => a.origin = b.origin

\* the same when no article takes its id from its row number
VectorIdUniqueWithOwnIds ==
  (/\ gFile.name.base \in {"", "ids", "a", "b"}
   /\ \A k \in 1..Len(gLog) : gLog[k].file.base \in {"ids", "a", "b"})
    => C16_VectorIdUnique

(***************************************************************************)
(* Properties of the message list and of the streamed answer (SpecRag).    *)
(***************************************************************************)
\* how many history turns are sent
TurnsSent == Min(Len(rHistory), HistoryLimit)

\* C17: the messages handed to the generative model are the system message,
\* then the last min(n, 6) of the n history turns in their order, then one
\* user message with the retrieved context and the query; no older turn is
\* among them.
C17_MessageList ==
  rMessages # <<>>
    => /\ Len(rMessages) = TurnsSent + 2
       /\ rMessages[1] = [role |-> "system", content |-> <<"system", SystemPrompt>>]
       /\ \A j \in 1..TurnsSent :
            /\ rMessages[1 + j].role = rHistory[Len(rHistory) - TurnsSent + j].role
            /\ rMessages[1 + j].content
                 = <<"history", rHistory[Len(rHistory) - TurnsSent + j].content>>
       /\ rMessages[Len(rMessages)].role = "user"
       /\ rMessages[Len(rMessages)].content[1] = "context"
       /\ rMessages[Len(rMessages)].content[2].query = rQuery
       /\ Len(rMessages[Len(rMessages)].content[2].context) = Len(rRetrieval.matches)
       /\ \A i \in 1..(Len(rHistory) - HistoryLimit), j \in 1..Len(rMessages) :
            rMessages[j].content # <<"history", rHistory[i].content>>

\* messages were built from a history of more than 6 turns
C17_Witness ==
  /\ rMessages # <<>>
  /\ Len(rHistory) > HistoryLimit

\* chunk.choices[0]?.delta?.content is not empty
HasContent(content) == content # ""

\* the content fragments among the chunks the model has emitted
ContentFragments(emitted) == SelectSeq(emitted, HasContent)

\* the stream of an answer the model generates (not the zero-match message)
ModelStream == rReturn.hasStream /\ ~ZeroMatches

C18_Relayed ==
  /\ (ModelStream /\ rStream.state \in {"open", "closed", "errored"}
        => rStream.chunks = ContentFragments(rEmitted))
  /\ (ModelStream /\ rStream.state = "cancelled"
        => IsPrefix(rStream.chunks, ContentFragments(rEmitted)))
  /\ IsPrefix(cRead, rStream.chunks)
  /\ (ModelStream /\ cPc = "done" => cRead = ContentFragments(rEmitted))

C18_ClosedLast ==
  rStream.state = "closed" => rEmitted' = rEmitted /\ rStream' = rStream

C19_CancelStopsConsumption ==
  [][rStream.state = "cancelled" => rEmitted' = rEmitted /\ rStream' = rStream]_vars

\* What does hold after a cancellation: nothing more is relayed and nothing
\* that was relayed or read is retracted.
CancelKeepsDelivered ==
  [][rStream.state = "cancelled" => rStream' = rStream /\ cRead' = cRead]_vars

C20_Derived ==
  /\ (rReturn.hasStream => rReturn.citations = ExtractCitations(rRetrieval.matches))
  /\ (hResponse.body
        => ParseCitationsHeader(hResponse.citations) = ExtractCitations(rRetrieval.matches))
  /\ (hResponse.body /\ (cPc \in {"reading", "done", "failed"} \/ cRead # <<>>)
        => cCitations = ExtractCitations(rRetrieval.matches))

C20_HandedOverFirst ==
  /\ (rReturn.kind = "none" /\ rReturn'.hasStream
        => rEmitted' = <<>> /\ rStream'.state \in {"open", "closed"})
  /\ (rReturn.hasStream => rReturn' = rReturn)
  /\ (hResponse.body => hResponse' = hResponse)
  /\ (cRead' # cRead => cCitations' = cCitations /\ cPc = "reading")

\* C20: the citations returned with the stream are the citations extracted
\* from the retrieval result; they are returned in the step that creates the
\* stream, when no chunk of the model has been consumed, and never change
\* afterwards; the X-Citations header of the response decodes to them; and
\* the client holds them before it reads the first fragment of the body,
\* whether the stream later closes, fails or is cancelled.
C20_CitationsUpFront == []C20_Derived /\ [][C20_HandedOverFirst]_vars

\* the client holds the citations while the stream is open and nothing has
\* been relayed or read
C20_Witness ==
  /\ cPc = "reading"
  /\ cCitations # <<>>
  /\ cRead = <<>>
  /\ rStream = [state |-> "open", chunks |-> <<>>]
  /\ rEmitted = <<>>

(***************************************************************************)
(* Properties of the responses of POST /api/chat (SpecChat).               *)
(***************************************************************************)
IndexUnprovisioned == ixService \in {"absent", "initializing"}

\* C21: the chat endpoint answers with the index-not-ready response exactly
\* when the index is absent or not yet provisioned.
C21_IndexNotReadyExact ==
  hPc = "responded" => (hResponse = IndexNotReadyResponse <=> IndexUnprovisioned)

\* What does hold: an index the service does not list is reported as not
\* ready, and an empty retrieval is answered with the no-information stream.
AbsentIndexReported ==
  /\ (hPc = "responded" /\ ixService = "absent" => hResponse = IndexNotReadyResponse)
  /\ (hPc = "responded" /\ ZeroMatches
        => hResponse.body /\ rStream.chunks = <<NoInfoStreamMessage>>)

\* C22: a request made while the vector-index API key is unset is answered
\* with the configuration error naming the Pinecone key, and one made while
\* the model API key is unset (when the index check passed and the message
\* is not blank) with the configuration error naming the OpenAI key.
C22_MissingCredentialNamed ==
  hPc = "responded"
    => /\ (~pineconeKeySet => hResponse.json = PineconeConfigJson)
       /\ (pineconeKeySet /\ ~apiKeySet /\ rPc # "idle" /\ ~IsBlank(rQuery)
             => hResponse.json = OpenAIConfigJson)

\* What does hold: the missing model key is named, once the request has
\* passed the index check with a message that is not blank.
ModelCredentialNamed ==
  hPc = "responded" /\ pineconeKeySet /\ ~apiKeySet /\ rPc # "idle" /\ ~IsBlank(rQuery)
    => hResponse.json = OpenAIConfigJson /\ hResponse.status = 500

\* C23: a request in which a stage failed is answered with a structured
\* failure body, at whatever stage the failure occurred.
C23_FailuresAnsweredStructured ==
  hPc = "responded" /\ rPc = "FAILED" => ~hResponse.body /\ hResponse.json # NoJson

\* What does hold: a failure before the stream is returned is answered with
\* a JSON failure body.
EarlyFailuresAnsweredStructured ==
  hPc = "responded" /\ rReturn.kind = "throw" => ~hResponse.body /\ hResponse.json # NoJson

\* the one body of a failed request that carries no detail
InternalErrorBare == InternalErrorJson(NoError, "production")

ProductionBodies ==
  {IndexNotReadyJson, OpenAIConfigJson, PineconeConfigJson, RateLimitJson, InternalErrorBare}

\* C24 as stated: in production mode a request that failed at a provider is
\* answered with the same body whatever the provider's error said.
C24_SameBodyInProduction ==
  hPc = "responded" /\ rReturn.kind = "throw" /\ apiKeySet /\ hResponse.env = "production"
    => hResponse.json = InternalErrorBare

\* C24: in production mode the body of a failed request is one of five fixed
\* bodies and carries no detail; a detail is sent only in development mode,
\* and it is the message of the caught error.
C24_NoProviderTextInProduction ==
  hPc = "responded" /\ ~hResponse.body
    => /\ (hResponse.env # "development" => hResponse.json \in ProductionBodies)
       /\ (hResponse.json.details # <<>>
             => /\ hResponse.env = "development"
                /\ hResponse.json.details = rReturn.error.message
                /\ hResponse.json = [InternalErrorBare EXCEPT !.details = rReturn.error.message])

\* a provider failure answered in production mode with the internal error
C24_Witness ==
  /\ hPc = "responded"
  /\ hResponse.env = "production"
  /\ hResponse.json = InternalErrorBare
  /\ rReturn.error.message # <<>>
  /\ apiKeySet

(***************************************************************************)
(* Properties of chunkText (SpecChunk).                                    *)
(***************************************************************************)
\* position in the text of a word of a chunk
PosInText(word) == CHOOSE p \in 1..Len(kText) : kText[p] = word

\* chunk j holds words of one sentence only, and that sentence alone exceeds
\* maxTokens: the chunk comes from the word-level split
FromWordSplit(j) ==
  /\ \A i \in 1..Len(kChunks[j]) : kChunks[j][i].s = kChunks[j][1].s
  /\ EstimateTokens(SentenceOf(kText, kChunks[j][1].s)) > kConfig.maxTokens

\* C28: every chunk chunkText returns when it splits by sentences is
\* estimated at no more than maxTokens, except the chunks of the word-level split of an oversized sentence, which
\* hold at most floor(maxTokens * 0.75) words.
C28_ChunkWithinMax ==
  kPc = "returned" /\ kConfig.preserveSentences
    => \A j \in 1..Len(kChunks) :
         \/ EstimateTokens(kChunks[j]) <= kConfig.maxTokens
         \/ FromWordSplit(j) /\ Len(kChunks[j]) <= WordsFor(kConfig.maxTokens)

\* What does hold: the sentences of a chunk, estimated one by one, sum to no
\* more than maxTokens unless the chunk comes from the word-level split or
\* was started with overlap sentences, and a chunk of the word-level split
\* holds at most floor(maxTokens * 0.75) words.
RECURSIVE SumSentenceTokens(_)
SumSentenceTokens(sentences) ==
  IF sentences = <<>> THEN 0
  ELSE EstimateTokens(Head(sentences)) + SumSentenceTokens(Tail(sentences))

SentenceSumWithinMax ==
  kPc = "returned" /\ kConfig.preserveSentences /\ Len(kChunks) > 1
    => \A j \in 1..Len(kChunks) :
         \/ /\ kBuilt[j].seed = <<>>
            /\ SumSentenceTokens(SplitIntoSentences(kChunks[j])) <= kConfig.maxTokens
         \/ kBuilt[j].seed # <<>>
         \/ FromWordSplit(j) /\ Len(kChunks[j]) <= WordsFor(kConfig.maxTokens)

\* C29: when chunkText returns, every word of the text is in some chunk,
\* every chunk is a run of consecutive words of the text, the chunks start
\* and end in source order, and no word lies between the end of one chunk
\* and the start of the next.
C29_ChunksCoverText ==
  kPc = "returned"
    => /\ \A p \in 1..Len(kText) :
            kText[p].len > 0 =>
              \E j \in 1..Len(kChunks) : \E i \in 1..Len(kChunks[j]) : kChunks[j][i] = kText[p]
       /\ \A j \in 1..Len(kChunks) :
            /\ kChunks[j] # <<>>
            /\ \A i \in 1..Len(kChunks[j]) : \E p \in 1..Len(kText) : kText[p] = kChunks[j][i]
            /\ \A i \in 1..(Len(kChunks[j]) - 1) :
                 PosInText(kChunks[j][i + 1]) = PosInText(kChunks[j][i]) + 1
       /\ \A j \in 1..(Len(kChunks) - 1) :
            /\ PosInText(kChunks[j + 1][1]) <= PosInText(Last(kChunks[j])) + 1
            /\ PosInText(kChunks[j + 1][1]) >= PosInText(kChunks[j][1])
            /\ PosInText(Last(kChunks[j + 1])) >= PosInText(Last(kChunks[j]))

\* sentence chunks around the word-level chunks of an oversized sentence
C29_Witness ==
  /\ kPc = "returned"
  /\ kConfig.preserveSentences
  /\ Len(kChunks) >= 4
  /\ ~FromWordSplit(1)
  /\ FromWordSplit(2)
  /\ FromWordSplit(3)
  /\ kChunks[3][1] = Last(kChunks[2])
  /\ ~FromWordSplit(Len(kChunks))

\* the last n words of chunk j are the first n words of chunk j + 1
SharesTail(j, n) ==
  /\ n <= Len(kChunks[j])
  /\ n <= Len(kChunks[j + 1])
  /\ SubSeq(kChunks[j], Len(kChunks[j]) - n + 1, Len(kChunks[j])) = SubSeq(kChunks[j + 1], 1, n)

\* the overlap chunk j was started with: trailing sentences of chunk j - 1,
\* estimated together at no more than the overlap
SeedWithinOverlap(j) ==
  LET seed == JoinSentences(kBuilt[j].seed) IN
  kBuilt[j].seed # <<>>
    => /\ j > 1
       /\ IsPrefix(seed, kChunks[j])
       /\ Len(seed) <= Len(kChunks[j - 1])
       /\ SubSeq(kChunks[j - 1], Len(kChunks[j - 1]) - Len(seed) + 1, Len(kChunks[j - 1])) = seed
       /\ SumSentenceTokens(kBuilt[j].seed) <= kConfig.overlap

\* C30: when chunkText returns more than one chunk with a positive overlap,
\* consecutive chunks share their tail and head unless the text is shorter
\* than the overlap, and the
\* sentences a chunk is started with are trailing sentences of the previous
\* chunk estimated at no more than overlapTokens.
C30_ConsecutiveChunksOverlap ==
  kPc = "returned" /\ Len(kChunks) > 1
    => /\ (kConfig.overlap > 0 /\ EstimateTokens(kText) >= kConfig.overlap
             => \A j \in 1..(Len(kChunks) - 1) : \E n \in 1..Len(kChunks[j]) : SharesTail(j, n))
       /\ \A j \in 1..Len(kChunks) : SeedWithinOverlap(j)

\* What does hold: the seeded sentences.
SeedsWithinOverlap ==
  kPc = "returned" => \A j \in 1..Len(kChunks) : SeedWithinOverlap(j)

(***************************************************************************)
(* Properties of the summarizer (SpecSummarize)                            *)
(***************************************************************************)
StageOneChunks == ChunkText(sText, ChunkConfig(StageChunkTokens, StageOverlapTokens, TRUE))

\* C25: summarizeChatMessage routes on the estimated tokens of its input.
\* Up to 6,000 tokens the input is returned unchanged and no model call is
\* made.  Above 6,000 and up to 20,000 tokens exactly one summarizeText call
\* is made, on the whole input with the output cap.  Above 20,000 tokens the
\* input is split by chunkText into chunks of 6,000 tokens with 200 of
\* overlap, each chunk gets its own summarizeText call of 500 tokens, and one
\* final call with the output cap is made only after every chunk summary has
\* resolved, on the chunk summaries joined in chunk order.
C25_RoutedBySize ==
  (sFn = "summarizeChatMessage") =>
    LET tokens == EstimateTokens(sText)
        n == Len(sChunks) IN
    /\ tokens <= PassThroughTokens =>
         /\ sPc = "returned"
         /\ sCalls = <<>>
         /\ sResult.summary = sText
    /\ (tokens > PassThroughTokens /\ tokens <= TwoStageTokens) =>
         /\ sCalls = <<SummarizeTextCall(sText, sCap)>>
         /\ sPc \in {"single", "returned"}
    /\ tokens > TwoStageTokens =>
         /\ sChunks = StageOneChunks
         /\ Len(sCalls) \in {n, n + 1}
         /\ \A i \in 1..n : sCalls[i] = SummarizeTextCall(sChunks[i], ChunkSummaryTokens)
         /\ Len(sCalls) = n + 1 =>
              /\ sDone = 1..n
              /\ sCalls[n + 1] = SummarizeTextCall(JoinSummaries(sSummaries), sCap)
         /\ (sPc = "returned" /\ sResult.summary # TruncateToTokenLimit(sText, FallbackTokens))
              => Len(sCalls) = n + 1

\* A message of more than 20,000 tokens in three chunks went through both
\* stages and its summary is the content of the final call.
C25_Witness ==
  /\ sFn = "summarizeChatMessage"
  /\ sPc = "returned"
  /\ EstimateTokens(sText) > TwoStageTokens
  /\ Len(sChunks) = 3
  /\ Len(sCalls) = 4
  /\ sResult.summary = ModelContent(4, sCap)

\* C26: summarization never raises: a failing model call is caught at
\* every entry point and the entry point returns a truncated text with its
\* token counts.
C26_NeverRaises ==
  /\ sPc # "thrown"
  /\ sPc = "returned" => sResult.kind = "value"

\* summarizeChatMessage recovers from every failing call with the input
\* truncated to the fallback limit.
ChatMessageRecovers ==
  (sFn = "summarizeChatMessage") =>
    /\ sPc # "thrown"
    /\ sPc = "returned" =>
         /\ sResult.kind = "value"
         /\ sResult.originalTokens = EstimateTokens(sText)
         /\ sResult.summaryTokens = EstimateTokens(sResult.summary)

\* C27: on every return path the reported summaryTokens is at most the
\* output cap the caller configured.
C27_SummaryWithinCap ==
  (sPc = "returned") => sResult.summaryTokens <= sCap

\* A summary that is the content of a model call is within the cap.
ModelContentWithinCap ==
  (sPc = "returned" /\ Len(sCalls) > 0
     /\ sResult.summary = ModelContent(Len(sCalls), sCap))
    => sResult.summaryTokens <= sCap

\* The truncation fallback returns at most one token more than the fallback
\* limit of 6,000 tokens, whatever the cap.
FallbackWithinLimit ==
  (sFn = "summarizeChatMessage" /\ sPc = "returned"
     /\ sResult.summary = TruncateToTokenLimit(sText, FallbackTokens))
    => sResult.summaryTokens <= FallbackTokens + 1


(***************************************************************************)
(* More properties of chunkText (SpecChunk)                                *)
(***************************************************************************)
\* a string of nothing but whitespace
OnlyWhitespace(words) == \A i \in 1..Len(words) : words[i].len = 0

\* C31: when chunkText returns: an empty or whitespace-only text gives no
\* chunk; any other text estimated at no more than maxTokens gives exactly
\* one chunk, the whole text; and no returned chunk is empty or
\* whitespace-only.
C31_SmallTextOneChunk ==
  kPc = "returned"
    => /\ OnlyWhitespace(kText) => kChunks = <<>>
       /\ (~OnlyWhitespace(kText) /\ EstimateTokens(kText) <= kConfig.maxTokens)
            => kChunks = <<kText>>
       /\ \A j \in 1..Len(kChunks) : ~OnlyWhitespace(kChunks[j])

\* The word-level split of a text that starts with a space built a chunk of
\* nothing, which the final filter dropped.
C31_Witness ==
  /\ kPc = "returned"
  /\ ~kConfig.preserveSentences
  /\ kText # <<>>
  /\ kText[1] = LeadingSpace
  /\ Len(kChunks) >= 2
  /\ Len(BuildChunks(kText, kConfig)) = Len(kChunks) + 1


(***************************************************************************)
(* The two variants of the orchestrator side by side (SpecRag)             *)
(***************************************************************************)
\* the text a variant answers with when nothing was retrieved
FixedResponse(fn) ==
  IF fn = "queryKnowledgeBase" THEN NoInfoAnswer ELSE NoInfoStreamMessage

\* the text the running variant delivered
DeliveredText ==
  IF rFn = "queryKnowledgeBase" THEN rReturn.answer
  ELSE IF Len(rStream.chunks) = 1 THEN rStream.chunks[1] ELSE ""

\* What the stages before generation do, stated without the variant: one
\* embedding call on the query, one retrieval call after it, no generation
\* call and no citations when nothing was retrieved, otherwise the message
\* list and the citations built from the query, the history and the matches.
StagesBeforeGenerationShared ==
  /\ rPc # "idle" => rCalls.embed = 1 /\ eText = rQuery
  /\ rCalls.query = (IF rPc \in {"idle", "EMBEDDING_QUERY"} \/ rQueryVector = <<>> THEN 0 ELSE 1)
  /\ ZeroMatches => /\ rCalls.generate = 0
                    /\ rMessages = <<>>
                    /\ rReturn.kind = "value"
                    /\ rReturn.citations = <<>>
  /\ rMessages # <<>> => rMessages = BuildMessages(rQuery, rHistory, rRetrieval.matches)
  /\ (rReturn.kind = "value" /\ ~ZeroMatches)
       => rReturn.citations = ExtractCitations(rRetrieval.matches)

\* Each variant answers with its own fixed text when nothing was retrieved.
OwnFixedResponse ==
  (ZeroMatches /\ rPc = "DONE") => DeliveredText = FixedResponse(rFn)

\* C32: both variants run the stages before generation in the same way: the
\* same embedding and retrieval calls, the same decision to answer without
\* the model when nothing was retrieved and the same fixed text in that
\* case, the same message list and the same citations.
C32_VariantsAgree ==
  /\ StagesBeforeGenerationShared
  /\ (ZeroMatches /\ rPc = "DONE")
       => /\ DeliveredText = FixedResponse(rFn)
          /\ \A fn \in {"queryKnowledgeBase", "queryKnowledgeBaseStream"} :
               DeliveredText = FixedResponse(fn)


(***************************************************************************)
(* Properties of the admission of chat requests (SpecGate)                 *)
(***************************************************************************)
\* the last request carries an empty message, a message of more than 2,000
\* characters or a turn whose role is neither user nor assistant
BadBody ==
  /\ pRequest.body.parses
  /\ \/ pRequest.body.messageLen = 0
     \/ pRequest.body.messageLen > 2000
     \/ \E i \in 1..Len(pRequest.body.roles) :
          pRequest.body.roles[i] \notin {"user", "assistant"}

\* C33: a request with such a body is refused, with status 400 unless the
\* limiter refused it first, and a request refused with 400 or 429 never
\* reaches the index check; the calls of embedding, retrieval and generation
\* come after the index check, so none of them is made either.
C33_RefusedBeforeAnyCall ==
  (pRequest # NoChatRequest)
    => /\ BadBody => (pStatus \in {400, 429} /\ ~pCalled)
       /\ pStatus \in {400, 429} => ~pCalled
       /\ ~pCalled => (hPc = "idle" /\ rCalls.embed = 0 /\ rCalls.query = 0
                         /\ rCalls.generate = 0)

\* A message of 2,001 characters was refused with 400 after the limiter let
\* the request through.
C33_Witness ==
  /\ pRequest.body.parses
  /\ pRequest.body.messageLen = 2001
  /\ pStatus = 400
  /\ ~pCalled
  /\ \E a \in pAdmitted : a.identifier = pRequest.identifier /\ a.at = pRequest.at

\* the requests of an identity the limiter admitted after `from` and up to `to`
AdmittedWithin(identifier, from, to) ==
  Cardinality({a \in pAdmitted : a.identifier = identifier /\ a.at > from /\ a.at <= to})

\* the requests of an identity admitted in the window that ends at resetTime
AdmittedInWindow(identifier, resetTime) ==
  Cardinality({a \in pAdmitted : a.identifier = identifier /\ a.resetTime = resetTime})

Identifiers == {Identifier(header) : header \in ForwardedFor}

ClockTimes == {n * ClockStepMs : n \in 0..MaxClockSteps}

\* C34: for every identity no more than maxRequests requests are admitted
\* within any period of 60 seconds, and a request over the limit is refused
\* with 429.
C34_AtMostLimitPerMinute ==
  /\ \A identifier \in Identifiers, to \in ClockTimes :
       AdmittedWithin(identifier, to - RateLimitWindowMs, to) <= pMaxRequests
  /\ pStatus = 429 => ~pCalled

\* C34 as it holds: the limiter counts in fixed windows.  A window of an
\* identity opens with the first request after the previous window has
\* passed and lasts 60 seconds; no more than maxRequests requests of the
\* identity are admitted in one window, whatever the other identities do;
\* windows of one identity do not overlap, so a period of 60 seconds that
\* spans the end of a window holds at most 2 * maxRequests - 1 admitted
\* requests; a request refused by the limiter gets 429 and goes no further.
C34_AtMostLimitPerWindow ==
  /\ \A a \in pAdmitted :
       /\ AdmittedInWindow(a.identifier, a.resetTime) <= pMaxRequests
       /\ a.at <= a.resetTime
       /\ a.at >= a.resetTime - RateLimitWindowMs
       /\ \A b \in pAdmitted :
            (a.identifier = b.identifier /\ a.resetTime < b.resetTime)
              => b.at > a.resetTime
  /\ \A identifier \in Identifiers, to \in ClockTimes :
       AdmittedWithin(identifier, to - RateLimitWindowMs, to) <= 2 * pMaxRequests - 1
  /\ (pRequest # NoChatRequest /\ pStatus = 429)
       => /\ ~pCalled
          /\ pRequest.identifier \in DOMAIN rateLimitMap
          /\ rateLimitMap[pRequest.identifier].count = pMaxRequests
          /\ AdmittedInWindow(pRequest.identifier,
                              rateLimitMap[pRequest.identifier].resetTime) = pMaxRequests

\* An identity was admitted in two windows and then refused with 429 in the
\* second, which was full, while the other identity was admitted in between.
C34_Witness ==
  /\ pStatus = 429
  /\ ~pCalled
  /\ \E a, b, c \in pAdmitted :
       /\ a.identifier = pRequest.identifier
       /\ b.identifier # pRequest.identifier
       /\ c.identifier = pRequest.identifier
       /\ a.resetTime < c.resetTime
       /\ b.at >= a.at /\ b.at <= c.at
       /\ c.resetTime >= pRequest.at


(***************************************************************************)
(* Properties of truncateToTokenLimit (SpecTruncate)                       *)
(***************************************************************************)
\* the first floor(maxTokens * 3.5) characters of the text
TruncateWindow == SubSeq(tText, 1, Min((7 * tMax) \div 2, Len(tText)))

\* the positions, counted from 1, of the periods in the window
PeriodsInWindow == {i \in 1..Len(TruncateWindow) : TruncateWindow[i] = "."}

LastPeriodInWindow == CHOOSE i \in PeriodsInWindow : \A j \in PeriodsInWindow : j <= i

\* the last period of the window lies in its last 20%
PeriodInLastFifth ==
  /\ PeriodsInWindow # {}
  /\ 5 * (LastPeriodInWindow - 1) > 4 * ((7 * tMax) \div 2)

\* C35: a text estimated within the limit is returned unchanged; any other
\* text is cut to floor(maxTokens * 3.5) characters and, when the last
\* period of that window lies in its last 20%, returned up to and including
\* that period, otherwise returned as cut followed by "...".
C35_TruncationFallback ==
  tPc = "returned"
    => IF (2 * Len(tText) + 6) \div 7 <= tMax THEN tOut = tText
       ELSE IF PeriodInLastFifth THEN tOut = SubSeq(tText, 1, LastPeriodInWindow)
       ELSE tOut = TruncateWindow \o <<".", ".", ".">>

\* A text over the limit with two periods in the window, the last of them in
\* the last 20%, was cut after that period.
C35_Witness ==
  /\ tPc = "returned"
  /\ (2 * Len(tText) + 6) \div 7 > tMax
  /\ Cardinality(PeriodsInWindow) >= 2
  /\ PeriodInLastFifth
  /\ Len(tOut) = LastPeriodInWindow
  /\ Len(tOut) < Len(TruncateWindow)

\* C37: the text truncateToTokenLimit returns is estimated at no more than
\* maxTokens.
C37_TruncatedWithinLimit ==
  tPc = "returned" => (2 * Len(tOut) + 6) \div 7 <= tMax

\* What does hold: the text cut at a period is within the limit, and the
\* text with the ellipsis exceeds it by one token at most.
TruncatedWithinLimitPlusOne ==
  tPc = "returned"
    => /\ (2 * Len(tOut) + 6) \div 7 <= tMax + 1
       /\ ((2 * Len(tText) + 6) \div 7 > tMax /\ PeriodInLastFifth)
            => (2 * Len(tOut) + 6) \div 7 <= tMax


(***************************************************************************)
(* Termination of chunkText (SpecChunk)                                    *)
(***************************************************************************)
\* C36: every call of chunkText returns, whatever the text, maxTokens and
\* overlap.
C36_ChunkTextTerminates == kPc # "hangs"

\* What does hold: a call that does not return went through the word-level
\* split with floor(maxTokens * 0.75) <= floor(overlap * 0.75); with a
\* positive step, as under the configuration of twoStageSummarization, every call returns.
HangsOnlyWithoutStep ==
  /\ kPc = "hangs"
       => /\ WordsFor(kConfig.maxTokens) <= WordsFor(kConfig.overlap)
          /\ EstimateTokens(kText) > kConfig.maxTokens
          /\ (kConfig.preserveSentences => HasOversizedSentence(kText, kConfig.maxTokens))
  /\ WordsFor(StageChunkTokens) > WordsFor(StageOverlapTokens)

(***************************************************************************)
(* The records an ingestion hands to upsertVectors (SpecIngest).           *)
(***************************************************************************)
\* an ingestion request of either route is inside upsertVectors
IngestionUpserting == gPc \in {"upserting", "ingestUpserting"}

\* the records of `vectors` before position k that belong to the document of
\* the record at k
EarlierOfDocument(vectors, k) ==
  {j \in 1..(k - 1) : vectors[j].origin = vectors[k].origin}

\* C38: in both ingestion routes every record handed to the index carries
\* the id built from its own articleId and chunkIndex, the embedding of the
\* chunk in its metadata.content, and a chunkIndex that counts the chunks of
\* its document from 0 without gaps; there is one record per generated
\* chunk, in the order of the chunks, and the batches sent are slices of
\* these records.
C38_RecordsSelfConsistent ==
  IngestionUpserting =>
    /\ Len(uVectors) = Len(gChunks)
    /\ \A k \in 1..Len(uVectors) :
         /\ uVectors[k].id = BuildVectorId(uVectors[k].metadata.articleId,
                                           uVectors[k].metadata.chunkIndex)
         /\ uVectors[k].values = EmbeddingOf(uVectors[k].metadata.content)
         /\ k <= Len(gChunks) => uVectors[k].metadata.content = gChunks[k].chunk
         /\ uVectors[k].metadata.chunkIndex = Cardinality(EarlierOfDocument(uVectors, k))
    /\ \A b \in 1..Len(uSent) : \A k \in 1..Len(uSent[b]) :
         uSent[b][k] = uVectors[(b - 1) * uBatchSize + k]

\* The batch route has handed over the three records of two documents, one
\* of which has a blank stretch between its two chunks, after an upload that
\* stored its records.
C38_Witness ==
  /\ gPc = "ingestUpserting"
  /\ gFile.name.base = "gaps"
  /\ Len(uVectors) = 3
  /\ \E k \in 1..Len(uVectors) : uVectors[k].metadata.chunkIndex = 1
  /\ \E k \in 1..Len(gLog) : gLog[k].route = "upload" /\ gLog[k].status = 200 /\ gLog[k].ids # {}

\* the embeddings of all generated chunks, each of its own chunk
AllChunksEmbedded(result, chunks) ==
  /\ result.settled = "resolved"
  /\ Len(result.embeddings) = Len(chunks)
  /\ \A k \in 1..Len(chunks) : result.embeddings[k] = EmbeddingOf(chunks[k].chunk)

\* C39: in both ingestion routes, a step in which batchGenerateEmbeddings
\* rejects calls upsertVectors not at all, leaves the index as it was and
\* answers 500; and a step that calls upsertVectors or sends a batch to the
\* index happens only with the embeddings of all chunks of the request
\* generated.
C39_NoUpsertWithoutEmbeddings ==
  [][/\ (gEmbeddings # EmbeddingsRejected /\ gEmbeddings' = EmbeddingsRejected)
          => /\ UNCHANGED upVars
             /\ gPc' = "idle"
             /\ gLog'[Len(gLog')].status = 500
     /\ (uSent' # uSent \/ uStore' # uStore \/ uVectors' # uVectors)
          => AllChunksEmbedded(gEmbeddings', gChunks')]_vars

\* An ingestion whose embeddings were rejected has answered 500 after an
\* earlier one had stored records, and the index holds what it held.
C39_Witness ==
  /\ gPc = "idle"
  /\ gEmbeddings = EmbeddingsRejected
  /\ Len(gLog) = 2
  /\ gLog[1].status = 200
  /\ gLog[1].store # {}
  /\ gLog[2].status = 500
  /\ gLog[2].route = "ingest"
  /\ gLog[2].store = gLog[1].store
  /\ uStore = gLog[1].store

(***************************************************************************)
(* Concurrent initialization (SpecInitialize).                             *)
(***************************************************************************)
\* C40 (as claimed): with a key configured and a service that rejects no
\* list, create or stats call, callers that initialize the missing index
\* concurrently send at most one create request between them, and none of
\* their createIndex calls fails for another reason than the index not
\* becoming ready within the wait.
C40_ConcurrentInitSafe ==
  (pineconeKeySet /\ ~initServiceFailed) =>
    /\ initCreates <= 1
    /\ \A c \in Callers :
         initResult[c].kind = "error" => initResult[c].error = IndexTimeoutError
    /\ \A c \in Callers : initStatus[c] = 500 => initResult[c].error = IndexTimeoutError

\* a caller that lists the indexes after the create request of another was
\* accepted sends none
NoCreateAfterAccepted ==
  [][\A c \in Callers :
       (initService # "absent" /\ initPc[c] = "listing" /\ initPc'[c] = "creating")
         => initServiceFailed']_vars

====
